---- MODULE Spec2Model ----
(***************************************************************************)
(* Canvas Command Protocol, stream transport: the Context2D client proxy   *)
(* of packages/py/context2d.  Every public operation encodes its           *)
(* arguments, frames them and writes the frame to the shared file          *)
(* /dev/canvas; property setters consult the per-object cache first.       *)
(*                                                                         *)
(* Representation of Python values:                                        *)
(*   - a str is the sequence of its Unicode code points;                   *)
(*   - bytes are sequences of integers 0..255;                             *)
(*   - a real number that is a multiple of 1/2 is the integer 2*x          *)
(*     ("halves"), so 601 stands for 300.5;                                *)
(*   - a float handed to pack("f", ..) is [nan |-> BOOLEAN, h |-> halves]. *)
(***************************************************************************)
EXTENDS Integers, Sequences, FiniteSets, TLC

VARIABLES
    next_id,    \* Context2D.__next_id, the process-wide id counter
    stream,     \* the bytes written so far to Context2D.__file (/dev/canvas)
    objs,       \* the Context2D objects the program holds, in creation order
    hist,       \* the calls made so far, each with its outcome (observer)
    grads,      \* the CanvasGradient objects created, by reference (index)
    variant,    \* which HTMLCanvas module the program imported, if any
    canvases,   \* the HTMLCanvas objects the program holds, in creation order
    io,         \* the writes and reads made on the query mailboxes (observer)
    qhist,      \* the HTMLCanvas calls made so far, each with its outcome (observer)
    printed,    \* the number of warnings printed
    lock,       \* the thread inside a public operation under the callers' mutex, or 0
    threads     \* the threads of the program: position, locals, frames issued

\* the state of the HTMLCanvas modules
qvars == <<variant, canvases, io, qhist, printed>>

\* the threads and the mutex their callers share
tvars == <<lock, threads>>

vars == <<next_id, stream, objs, hist, grads, qvars, tvars>>

----------------------------------------------------------------------------
(* Bounds of the model *)

\* calls explored per run of the general specification
MaxCalls == 3
\* creations attempted beyond the id cap in the allocator specification
MaxOver == 2
\* leading creations that may take non-default arguments in the allocator
\* specification
MaxVariants == 2

----------------------------------------------------------------------------
(* Enumerated domains: the keys of each table in order, key k has code k-1 *)

_TEXT_RENDERING == <<"auto", "optimizeSpeed", "optimizeLegibility", "geometricPrecision">>
_LINE_CAP == <<"butt", "round", "square">>
_LINE_JOIN == <<"miter", "bevel", "round">>
_TEXT_ALIGN == <<"start", "end", "left", "right", "center">>
_TEXT_BASELINE == <<"alphabetic", "hanging", "top", "middle", "bottom", "ideographic">>
_DIRECTION == <<"inherit", "ltr", "rtl">>
_FONT_KERNING == <<"auto", "normal", "none">>
_FONT_STRETCH ==
    <<"normal", "ultra-condensed", "extra-condensed", "condensed", "semi-condensed",
      "semi-expanded", "expanded", "extra-expanded", "ultra-expanded">>
_FONT_VARIANT_CAPS ==
    <<"normal", "small-caps", "all-small-caps", "petite-caps", "all-petite-caps",
      "unicase", "titling-caps">>
_FILL_RULE == <<"nonzero", "evenodd">>
_GLOBAL_COMPOSITE_OPERATION ==
    <<"source-over", "source-in", "source-out", "source-atop", "destination-over",
      "destination-in", "destination-out", "destination-atop", "lighter", "copy",
      "xor", "multiply", "screen", "overlay", "darken", "lighten", "color-dodge",
      "color-burn", "hard-light", "soft-light", "difference", "exclusion", "hue",
      "saturation", "color", "luminosity">>
_IMAGE_SMOOTHING_QUALITY == <<"low", "medium", "high">>

\* the set of keys of a table
Keys(enum) == {enum[k] : k \in 1..Len(enum)}

\* enum[value], the integer the table assigns to a key
EnumCode(value, enum) == (CHOOSE k \in 1..Len(enum) : enum[k] = value) - 1

----------------------------------------------------------------------------
(* Value encoders *)

\* the result of an encoder: the bytes, or the exception it raised
Ok(b) == [ok |-> TRUE, bytes |-> b, err |-> "none", valid |-> <<>>]
Raised(e) == [ok |-> FALSE, bytes |-> <<>>, err |-> e, valid |-> <<>>]

RECURSIVE BigEndian(_, _)
\* the `length` low-order base-256 digits of n, most significant first
BigEndian(n, length) ==
    IF length = 0 THEN <<>>
    ELSE Append(BigEndian(n \div 256, length - 1), n % 256)

RECURSIVE ByteLength(_)
\* the number of base-256 digits of n >= 0
ByteLength(n) == IF n < 256 THEN 1 ELSE 1 + ByteLength(n \div 256)

\* int.to_bytes(length): big-endian, unsigned; OverflowError when n is negative
\* or does not fit in `length` bytes
to_bytes(n, length) ==
    IF n < 0 \/ ByteLength(n) > length THEN Raised("OverflowError")
    ELSE Ok(BigEndian(n, length))

\* round(x) of a real given in halves: nearest integer, ties to the even one
round(h) ==
    IF h % 2 = 0 THEN h \div 2
    ELSE LET lo == (h - 1) \div 2 IN IF lo % 2 = 0 THEN lo ELSE lo + 1

RECURSIVE Reverse(_)
Reverse(s) == IF s = <<>> THEN <<>> ELSE Append(Reverse(Tail(s)), Head(s))

\* the two bytes in little-endian order
pack_coord_little(h) ==
    LET b == to_bytes(round(h), 2) IN IF b.ok THEN Ok(Reverse(b.bytes)) ELSE b

\* round(x).to_bytes(2)
pack_coord(h) == to_bytes(round(h), 2)

\* concatenation of two encoder results; the first exception wins
Cat(a, b) ==
    IF ~a.ok THEN a ELSE IF ~b.ok THEN b ELSE Ok(a.bytes \o b.bytes)

RECURSIVE pack_coords(_)
\* round(x).to_bytes(2) + round(y).to_bytes(2) + ...
pack_coords(cs) ==
    IF cs = <<>> THEN Ok(<<>>) ELSE Cat(pack_coord(Head(cs)), pack_coords(Tail(cs)))

\* UTF-8 of one code point; a lone surrogate cannot be encoded
Utf8(cp) ==
    IF cp < 128 THEN Ok(<<cp>>)
    ELSE IF cp < 2048 THEN Ok(<<192 + (cp \div 64), 128 + (cp % 64)>>)
    ELSE IF cp >= 55296 /\ cp <= 57343 THEN Raised("UnicodeEncodeError")
    ELSE IF cp < 65536
         THEN Ok(<<224 + (cp \div 4096), 128 + ((cp \div 64) % 64), 128 + (cp % 64)>>)
    ELSE Ok(<<240 + (cp \div 262144), 128 + ((cp \div 4096) % 64),
              128 + ((cp \div 64) % 64), 128 + (cp % 64)>>)

RECURSIVE encode(_)
\* str.encode()
encode(string) ==
    IF string = <<>> THEN Ok(<<>>)
    ELSE Cat(Utf8(Head(string)), encode(Tail(string)))

\* _pack_string: len(string).to_bytes(4) + string.encode()
_pack_string(string) == Cat(to_bytes(Len(string), 4), encode(string))

\* an encoder that sends code 0 for a string that is no key
_pack_enum_unchecked(value, enum) ==
    IF value \notin Keys(enum) THEN Ok(<<0>>) ELSE to_bytes(EnumCode(value, enum), 1)

\* _pack_enum: the code of a key as one byte, ValueError naming the keys otherwise
_pack_enum(value, enum) ==
    IF value \notin Keys(enum)
    THEN [ok |-> FALSE, bytes |-> <<>>, err |-> "ValueError", valid |-> enum]
    ELSE to_bytes(EnumCode(value, enum), 1)

\* floats
F(h) == [nan |-> FALSE, h |-> h]
NaN == [nan |-> TRUE, h |-> 0]

\* Python's == on floats: NaN differs from everything, itself included
FloatEq(a, b) == ~a.nan /\ ~b.nan /\ a.h = b.h

RECURSIVE Log2(_)
\* the position of the highest set bit of m >= 1
Log2(m) == IF m < 2 THEN 0 ELSE 1 + Log2(m \div 2)

RECURSIVE Pow2(_)
Pow2(k) == IF k = 0 THEN 1 ELSE 2 * Pow2(k - 1)

\* the low 31 bits (exponent and fraction) of the IEEE-754 binary32 pattern of a
\* float; halves below 2^24 are represented exactly
Float32Magnitude(f) ==
    IF f.nan THEN 2143289344
    ELSE IF f.h = 0 THEN 0
    ELSE LET m == IF f.h < 0 THEN -f.h ELSE f.h
             k == Log2(m)
         IN  (k - 1 + 127) * 8388608 + (m - Pow2(k)) * Pow2(23 - k)

\* the four bytes of the binary32 pattern, most significant first
Float32Bytes(f) ==
    LET b == BigEndian(Float32Magnitude(f), 4)
    IN  IF ~f.nan /\ f.h < 0 THEN <<b[1] + 128>> \o Tail(b) ELSE b

\* pack("f", value): binary32 in the native byte order, little-endian on the
\* WebAssembly and x86 targets of the runtime
pack_f(f) == Ok(Reverse(Float32Bytes(f)))

RECURSIVE pack_B(_)
\* pack("B" * n, ...): each item one unsigned byte, struct.error outside 0..255
pack_B(items) ==
    IF items = <<>> THEN Ok(<<>>)
    ELSE IF Head(items) < 0 \/ Head(items) > 255 THEN Raised("struct.error")
    ELSE Cat(Ok(<<Head(items)>>), pack_B(Tail(items)))

\* b"\x01" if value else b"\x00"
pack_bool(value) == Ok(IF value THEN <<1>> ELSE <<0>>)

----------------------------------------------------------------------------
(* Strings used as argument values *)

S_10px_sans_serif == <<49, 48, 112, 120, 32, 115, 97, 110, 115, 45, 115, 101, 114, 105, 102>>
S_0px == <<48, 112, 120>>
S_black == <<98, 108, 97, 99, 107>>
S_transparent == <<35, 48, 48, 48, 48, 48, 48, 48, 48>>
S_red == <<114, 101, 100>>
\* "é": one character, two bytes of UTF-8
S_e_acute == <<233>>
\* "\ud800": a lone surrogate, a str that str.encode() rejects
S_surrogate == <<55296>>

\* a style value that is a flat color string
Color(s) == [t |-> "str", s |-> s]

\* the value of the filter property: None or a str
None == [t |-> "None", s |-> <<>>]
Str(s) == [t |-> "str", s |-> s]

----------------------------------------------------------------------------
(* The properties of a Context2D, by the shape of their setter *)

EnumProps ==
    {"text_rendering", "line_cap", "line_join", "text_align", "text_baseline",
     "direction", "font_kerning", "font_stretch", "font_variant_caps",
     "global_composite_operation", "image_smoothing_quality"}
FloatProps ==
    {"line_width", "miter_limit", "line_dash_offset", "shadow_blur",
     "shadow_offset_x", "shadow_offset_y", "global_alpha"}
StringProps == {"font", "letter_spacing", "word_spacing", "shadow_color"}
StyleProps == {"fill_style", "stroke_style"}
SizeProps == {"width", "height"}
\* operations that dispatch a frame with an empty payload
PlainOps == {"remove", "begin_path", "close_path", "stroke", "reset_transform", "reset"}
\* operations whose payload is a fill rule
FillRuleOps == {"fill", "clip"}

\* the table of an enum-typed property
TableOf(p) ==
    CASE p = "text_rendering" -> _TEXT_RENDERING
      [] p = "line_cap" -> _LINE_CAP
      [] p = "line_join" -> _LINE_JOIN
      [] p = "text_align" -> _TEXT_ALIGN
      [] p = "text_baseline" -> _TEXT_BASELINE
      [] p = "direction" -> _DIRECTION
      [] p = "font_kerning" -> _FONT_KERNING
      [] p = "font_stretch" -> _FONT_STRETCH
      [] p = "font_variant_caps" -> _FONT_VARIANT_CAPS
      [] p = "global_composite_operation" -> _GLOBAL_COMPOSITE_OPERATION
      [] p = "image_smoothing_quality" -> _IMAGE_SMOOTHING_QUALITY

\* the table with stroke dispatched under the opcode of begin_path
EventType_shared ==
    [create |-> 0, remove |-> 1, width |-> 2, height |-> 3, clear_rect |-> 4,
     fill_rect |-> 5, stroke_rect |-> 6, fill_text |-> 7, stroke_text |-> 8,
     text_rendering |-> 9, line_width |-> 10, line_cap |-> 11, line_join |-> 12,
     miter_limit |-> 13, line_dash |-> 14, line_dash_offset |-> 15, font |-> 16,
     text_align |-> 17, text_baseline |-> 18, direction |-> 19,
     letter_spacing |-> 20, font_kerning |-> 21, font_stretch |-> 22,
     font_variant_caps |-> 23, word_spacing |-> 24, fill_style |-> 25,
     stroke_style |-> 26, shadow_blur |-> 27, shadow_color |-> 28,
     shadow_offset_x |-> 29, shadow_offset_y |-> 30, begin_path |-> 31,
     close_path |-> 32, move_to |-> 33, line_to |-> 34, bezier_curve_to |-> 35,
     quadratic_curve_to |-> 36, arc |-> 37, arc_to |-> 38, ellipse |-> 39,
     rect |-> 40, round_rect |-> 41, fill |-> 42, stroke |-> 31, clip |-> 44,
     rotate |-> 45, translate |-> 46, scale |-> 47, transform |-> 48,
     set_transform |-> 49, reset_transform |-> 50, global_alpha |-> 51,
     global_composite_operation |-> 52, reset |-> 55, filter |-> 56,
     image_smoothing_enabled |-> 59, image_smoothing_quality |-> 60]

\* the event type each operation passes to __dispatch
EventType ==
    [create |-> 0, remove |-> 1, width |-> 2, height |-> 3, clear_rect |-> 4,
     fill_rect |-> 5, stroke_rect |-> 6, fill_text |-> 7, stroke_text |-> 8,
     text_rendering |-> 9, line_width |-> 10, line_cap |-> 11, line_join |-> 12,
     miter_limit |-> 13, line_dash |-> 14, line_dash_offset |-> 15, font |-> 16,
     text_align |-> 17, text_baseline |-> 18, direction |-> 19,
     letter_spacing |-> 20, font_kerning |-> 21, font_stretch |-> 22,
     font_variant_caps |-> 23, word_spacing |-> 24, fill_style |-> 25,
     stroke_style |-> 26, shadow_blur |-> 27, shadow_color |-> 28,
     shadow_offset_x |-> 29, shadow_offset_y |-> 30, begin_path |-> 31,
     close_path |-> 32, move_to |-> 33, line_to |-> 34, bezier_curve_to |-> 35,
     quadratic_curve_to |-> 36, arc |-> 37, arc_to |-> 38, ellipse |-> 39,
     rect |-> 40, round_rect |-> 41, fill |-> 42, stroke |-> 43, clip |-> 44,
     rotate |-> 45, translate |-> 46, scale |-> 47, transform |-> 48,
     set_transform |-> 49, reset_transform |-> 50, global_alpha |-> 51,
     global_composite_operation |-> 52, reset |-> 55, filter |-> 56,
     image_smoothing_enabled |-> 59, image_smoothing_quality |-> 60]

\* the class-level defaults of the cached properties
Defaults ==
    [width |-> 600, height |-> 300,
     text_rendering |-> "auto", line_width |-> F(2), line_cap |-> "butt",
     line_join |-> "miter", miter_limit |-> F(20), line_dash |-> <<>>,
     line_dash_offset |-> F(0), font |-> S_10px_sans_serif,
     text_align |-> "start", text_baseline |-> "alphabetic",
     direction |-> "inherit", letter_spacing |-> S_0px, font_kerning |-> "auto",
     font_stretch |-> "normal", font_variant_caps |-> "normal",
     word_spacing |-> S_0px, fill_style |-> Color(S_black),
     stroke_style |-> Color(S_black), shadow_blur |-> F(0),
     shadow_color |-> S_transparent, shadow_offset_x |-> F(0),
     shadow_offset_y |-> F(0), global_alpha |-> F(2),
     global_composite_operation |-> "source-over", filter |-> None,
     image_smoothing_enabled |-> TRUE, image_smoothing_quality |-> "low"]

\* the cached properties
Props == DOMAIN Defaults

\* the limit on ids in Context2D.__init__
IdLimit == 256

\* a counter that is read but not advanced
AllocateIdStuck(n) == n

\* Context2D.__next_id += 1
AllocateId(n) == n + 1

\* a limit check that lets id 256 through
TooManyOffByOne(id) == id > IdLimit

\* if self.__id >= 256: raise Exception("Too many Context2D instances! ...")
TooMany(id) == id >= IdLimit

\* a Context2D after __init__: its id, its class, and the cache with the width
\* and height as they were passed
NewObject(id, kind, width, height) ==
    [id |-> id, kind |-> kind,
     cache |-> [Defaults EXCEPT !.width = width, !.height = height]]

----------------------------------------------------------------------------
(* The transport *)

\* the frame one call of __dispatch stands for
Frame(event_type, id, data) == [op |-> event_type, id |-> id, payload |-> data]

\* a write that lands before the bytes already written
write_at_start(file, b) == b \o file

\* file.write(b)
write(file, b) == file \o b

\* a length field that counts the opcode byte only
FrameLengthShort(data) == Len(data) + 1

\* the length field of a frame: len(data) + 2
FrameLength(data) == Len(data) + 2

\* Context2D.__dispatch: the length, the event type, the id and the data, in
\* four writes; an exception ends the call after the writes already made
__dispatch(file, id, event_type, data) ==
    LET length == to_bytes(FrameLength(data), 4)
        et == to_bytes(event_type, 1)
        sid == to_bytes(id, 1)
    IN  IF ~length.ok THEN [file |-> file, err |-> length.err]
        ELSE IF ~et.ok THEN [file |-> write(file, length.bytes), err |-> et.err]
        ELSE IF ~sid.ok
             THEN [file |-> write(write(file, length.bytes), et.bytes), err |-> sid.err]
        ELSE [file |-> write(write(write(write(file, length.bytes), et.bytes),
                                   sid.bytes), data),
              err |-> "none"]

----------------------------------------------------------------------------
(* The record of a call: the operation, the object (its index in objs, 0 when *)
(* a constructor raised), the id used, the argument, the exception raised     *)
(* ("none" when the call returned), the keys an invalid-value error lists,    *)
(* and the frames handed to __dispatch.                                       *)

Entry(op, k, id, arg, err, valid, frames) ==
    [op |-> op, obj |-> k, id |-> id, arg |-> arg, err |-> err, valid |-> valid,
     frames |-> frames]

\* the call ends without reaching __dispatch: it returned early (enc is Ok) or
\* encoding the argument raised; the cache is left as `cache`
Ends(op, k, arg, enc, cache) ==
    /\ hist' = Append(hist, Entry(op, k, objs[k].id, arg, enc.err, enc.valid, <<>>))
    /\ objs' = [objs EXCEPT ![k].cache = cache]
    /\ UNCHANGED <<next_id, stream, grads, qvars, tvars>>

\* a dispatch whose assignments land in the cache of every surface
Dispatches_shared(op, k, arg, data, cache) ==
    LET d == __dispatch(stream, objs[k].id, EventType[op], data)
    IN  /\ stream' = d.file
        /\ objs' = IF d.err = "none"
                   THEN [j \in 1..Len(objs) |-> [objs[j] EXCEPT !.cache =
                            [cache EXCEPT !.width = objs[j].cache.width,
                                          !.height = objs[j].cache.height]]]
                   ELSE objs
        /\ hist' = Append(hist, Entry(op, k, objs[k].id, arg, d.err, <<>>,
                                      <<Frame(EventType[op], objs[k].id, data)>>))
        /\ UNCHANGED <<next_id, grads, qvars, tvars>>

\* self.__dispatch(event_type, data) followed by the assignments that make the
\* cache `cache`
Dispatches(op, k, arg, data, cache) ==
    LET d == __dispatch(stream, objs[k].id, EventType[op], data)
    IN  /\ stream' = d.file
        /\ objs' = IF d.err = "none" THEN [objs EXCEPT ![k].cache = cache] ELSE objs
        /\ hist' = Append(hist, Entry(op, k, objs[k].id, arg, d.err, <<>>,
                                      <<Frame(EventType[op], objs[k].id, data)>>))
        /\ UNCHANGED <<next_id, grads, qvars, tvars>>

\* a setter without the comparison with the cached value
SetterAlways(p, k, arg, same, enc, value) ==
    IF ~enc.ok THEN Ends(p, k, arg, enc, objs[k].cache)
    ELSE Dispatches(p, k, arg, enc.bytes, [objs[k].cache EXCEPT ![p] = value])

\* the common shape of a setter:
\*     if value == self.__p: return
\*     self.__dispatch(event_type, <encoded value>)
\*     self.__p = value
Setter(p, k, arg, same, enc, value) ==
    IF same THEN Ends(p, k, arg, Ok(<<>>), objs[k].cache)
    ELSE IF ~enc.ok THEN Ends(p, k, arg, enc, objs[k].cache)
    ELSE Dispatches(p, k, arg, enc.bytes, [objs[k].cache EXCEPT ![p] = value])

----------------------------------------------------------------------------
(* Operations *)

\* Context2D.__init__(width=, height=), also reached through super().__init__
Context2D__init__(kind, width, height) ==
    LET id == next_id
        data == Cat(pack_coord(width), pack_coord(height))
        d == __dispatch(stream, id, EventType.create, data.bytes)
    IN  /\ next_id' = AllocateId(next_id)
        /\ UNCHANGED <<grads, qvars, tvars>>
        /\ IF TooMany(id)
           THEN /\ hist' = Append(hist, Entry("create", 0, id, <<kind, width, height>>,
                                              "Exception", <<>>, <<>>))
                /\ UNCHANGED <<stream, objs>>
           ELSE IF ~data.ok
           THEN /\ hist' = Append(hist, Entry("create", 0, id, <<kind, width, height>>,
                                              data.err, <<>>, <<>>))
                /\ UNCHANGED <<stream, objs>>
           ELSE /\ stream' = d.file
                /\ objs' = IF d.err = "none"
                           THEN Append(objs, NewObject(id, kind, width, height))
                           ELSE objs
                /\ hist' = Append(hist,
                       Entry("create", IF d.err = "none" THEN Len(objs) + 1 ELSE 0, id,
                             <<kind, width, height>>, d.err, <<>>,
                             <<Frame(EventType.create, id, data.bytes)>>))

\* size setters that compare the value as given, before rounding it
SizeSetterUnrounded(p, k, value) ==
    Setter(p, k, value, value = objs[k].cache[p], to_bytes(round(value), 2),
           2 * round(value))

\* the setters of width and height: round, compare, dispatch, cache the rounded
\* value
SizeSetter(p, k, value) ==
    LET rounded == round(value)
    IN  Setter(p, k, value, 2 * rounded = objs[k].cache[p], to_bytes(rounded, 2),
               2 * rounded)

\* the setters of the enum-typed properties
EnumSetter(p, k, value) ==
    Setter(p, k, value, value = objs[k].cache[p], _pack_enum(value, TableOf(p)), value)

\* float setters that dispatch whatever the cache holds
FloatSetterAlways(p, k, value) ==
    Setter(p, k, value, FALSE, pack_f(value), value)

\* the setters of the properties sent as a 32-bit float
FloatSetter(p, k, value) ==
    Setter(p, k, value, FloatEq(value, objs[k].cache[p]), pack_f(value), value)

\* the setters of the properties sent as a length-prefixed string
StringSetter(p, k, value) ==
    Setter(p, k, value, value = objs[k].cache[p], _pack_string(value), value)

(* Gradients.  A gradient is a mutable object: grads holds the objects and a  *)
(* style value refers to one by its index.                                   *)

\* a gradient as create_*_gradient builds it: no stops, its geometry (in
\* halves) and, for the conic kind, its angle
NewGradient(kind, geom, angle) ==
    [kind |-> kind, stops |-> <<>>, geom |-> geom, angle |-> angle]

\* the style value that is (a reference to) gradient g
GradientRef(g) == [t |-> "CanvasGradient", s |-> <<g>>]

RECURSIVE pack_stops_reversed(_)
\* stops encoded last to first
pack_stops_reversed(stops) ==
    IF Len(stops) = 0 THEN Ok(<<>>)
    ELSE IF Len(stops) = 1
    THEN Cat(pack_f(stops[1].offset), _pack_string(stops[1].color))
    ELSE LET mid == Len(stops) \div 2
         IN  Cat(pack_stops_reversed(SubSeq(stops, mid + 1, Len(stops))),
                 pack_stops_reversed(SubSeq(stops, 1, mid)))

RECURSIVE pack_stops(_)
\* b"".join(pack("f", offset) + _pack_string(color) for offset, color in stops),
\* joined by halves
pack_stops(stops) ==
    IF Len(stops) = 0 THEN Ok(<<>>)
    ELSE IF Len(stops) = 1
    THEN Cat(pack_f(stops[1].offset), _pack_string(stops[1].color))
    ELSE LET mid == Len(stops) \div 2
         IN  Cat(pack_stops(SubSeq(stops, 1, mid)),
                 pack_stops(SubSeq(stops, mid + 1, Len(stops))))

\* CanvasGradient._pack: the stop count as one unsigned byte, then the stops
CanvasGradient_pack(g) == Cat(pack_B(<<Len(g.stops)>>), pack_stops(g.stops))

\* _LinearGradient._pack, _ConicGradient._pack, _RadialGradient._pack: the base
\* encoding, the kind tag and the geometry
_pack(g) ==
    CASE g.kind = "linear" ->
            Cat(CanvasGradient_pack(g), Cat(Ok(<<0>>), pack_coords(g.geom)))
      [] g.kind = "conic" ->
            Cat(CanvasGradient_pack(g),
                Cat(Ok(<<1>>), Cat(pack_coords(g.geom), pack_f(g.angle))))
      [] g.kind = "radial" ->
            Cat(CanvasGradient_pack(g), Cat(Ok(<<2>>), pack_coords(g.geom)))

\* the dataclass __eq__ of two gradient objects: same class and equal fields
\* an equality that only an object has with itself
GradientEq_identity(a, b) == FALSE

\* the generated __eq__ of the gradient dataclasses, between two objects
GradientEq(a, b) ==
    /\ a.kind = b.kind
    /\ a.geom = b.geom
    /\ a.kind = "conic" => FloatEq(a.angle, b.angle)
    /\ Len(a.stops) = Len(b.stops)
    /\ \A i \in 1..Len(a.stops) :
          /\ FloatEq(a.stops[i].offset, b.stops[i].offset)
          /\ a.stops[i].color = b.stops[i].color

\* value == self.__fill_style: strings by value, a gradient with itself, two
\* gradient objects by their fields (a NaN offset of another object differs)
StyleEq(value, cached) ==
    IF value.t # cached.t THEN FALSE
    ELSE IF value.t = "str" THEN value.s = cached.s
    ELSE value.s = cached.s \/ GradientEq(grads[value.s[1]], grads[cached.s[1]])

\* __dispatch_style: b"\x00" + _pack_string(value) for a str, b"\x01" +
\* value._pack() otherwise
pack_style(value) ==
    IF value.t = "str" THEN Cat(Ok(<<0>>), _pack_string(value.s))
    ELSE Cat(Ok(<<1>>), _pack(grads[value.s[1]]))

\* the setters of fill_style and stroke_style
StyleSetter(p, k, value) ==
    Setter(p, k, value, StyleEq(value, objs[k].cache[p]), pack_style(value), value)

\* set_line_dash: the count and the dashes, one unsigned byte each
set_line_dash(k, dashes) ==
    Setter("line_dash", k, dashes, dashes = objs[k].cache.line_dash,
           pack_B(<<Len(dashes)>> \o dashes), dashes)

\* the setter of image_smoothing_enabled
image_smoothing_enabled(k, value) ==
    Setter("image_smoothing_enabled", k, value,
           value = objs[k].cache.image_smoothing_enabled, pack_bool(value), value)

\* the setter of filter: the cache is assigned before the value is encoded and
\* dispatched; len(None) raises TypeError
filter(k, value) ==
    LET enc == IF value.t = "None" THEN Raised("TypeError") ELSE _pack_string(value.s)
        cache == [objs[k].cache EXCEPT !.filter = value]
    IN  IF value = objs[k].cache.filter
        THEN Ends("filter", k, value, Ok(<<>>), objs[k].cache)
        ELSE IF ~enc.ok THEN Ends("filter", k, value, enc, cache)
        ELSE Dispatches("filter", k, value, enc.bytes, cache)

\* fill(fill_rule) and clip(fill_rule)
FillRuleOp(op, k, fill_rule) ==
    LET enc == _pack_enum(fill_rule, _FILL_RULE)
    IN  IF ~enc.ok THEN Ends(op, k, fill_rule, enc, objs[k].cache)
        ELSE Dispatches(op, k, fill_rule, enc.bytes, objs[k].cache)

\* remove, begin_path, close_path, stroke, reset_transform, reset:
\* self.__dispatch(event_type)
PlainOp(op, k) == Dispatches(op, k, <<>>, <<>>, objs[k].cache)

----------------------------------------------------------------------------
(* Argument values explored *)

CreateArgs == {<<600, 300>>, <<601, 301>>, <<-2, 300>>}
SizeArgs(p) == {Defaults[p], 601, 5, -2}
EnumArgs(p) == {Defaults[p], TableOf(p)[Len(TableOf(p))], "bogus"}
FloatArgs(p) == {Defaults[p], F(7), NaN}
StringArgs(p) == {Defaults[p], S_e_acute, S_surrogate}
StyleArgs == {Color(S_black), Color(S_red)}
DashArgs == {<<>>, <<5, 3>>, <<300>>}
FilterArgs == {None, Str(S_e_acute), Str(S_surrogate)}
FillRuleArgs == {"nonzero", "evenodd", "bogus"}

----------------------------------------------------------------------------
(* The general specification: any MaxCalls calls by one thread *)

Init ==
    /\ next_id = 0
    /\ stream = <<>>
    /\ objs = <<>>
    /\ hist = <<>>
    /\ grads = <<>>
    /\ variant = "context2d"
    /\ canvases = <<>>
    /\ io = <<>>
    /\ qhist = <<>>
    /\ printed = 0
    /\ lock = 0
    /\ threads = <<>>

More == Len(hist) < MaxCalls
Objects == 1..Len(objs)

Create ==
    More /\ \E a \in CreateArgs : Context2D__init__("Context2D", a[1], a[2])
SetSize ==
    More /\ \E k \in Objects, p \in SizeProps : \E v \in SizeArgs(p) : SizeSetter(p, k, v)
SetEnum ==
    More /\ \E k \in Objects, p \in EnumProps : \E v \in EnumArgs(p) : EnumSetter(p, k, v)
SetFloat ==
    More /\ \E k \in Objects, p \in FloatProps : \E v \in FloatArgs(p) : FloatSetter(p, k, v)
SetString ==
    More /\ \E k \in Objects, p \in StringProps : \E v \in StringArgs(p) :
                StringSetter(p, k, v)
SetStyle ==
    More /\ \E k \in Objects, p \in StyleProps, v \in StyleArgs : StyleSetter(p, k, v)
SetLineDash ==
    More /\ \E k \in Objects, v \in DashArgs : set_line_dash(k, v)
SetImageSmoothingEnabled ==
    More /\ \E k \in Objects, v \in BOOLEAN : image_smoothing_enabled(k, v)
SetFilter ==
    More /\ \E k \in Objects, v \in FilterArgs : filter(k, v)
FillOrClip ==
    More /\ \E k \in Objects, op \in FillRuleOps, v \in FillRuleArgs : FillRuleOp(op, k, v)
Plain ==
    More /\ \E k \in Objects, op \in PlainOps : PlainOp(op, k)

Next ==
    \/ Create
    \/ SetSize
    \/ SetEnum
    \/ SetFloat
    \/ SetString
    \/ SetStyle
    \/ SetLineDash
    \/ SetImageSmoothingEnabled
    \/ SetFilter
    \/ FillOrClip
    \/ Plain

Spec == Init /\ [][Next]_vars

----------------------------------------------------------------------------
(* The allocator specification: creations up to and beyond the id limit,    *)
(* all with the default arguments except for the first MaxVariants of them  *)

\* KarelCanvas.__init__ up to its call super().__init__(width=width, height=height)
KarelCanvas_super_init(width, height) == Context2D__init__("KarelCanvas", width, height)

AllocMore == next_id < IdLimit + MaxOver

AllocCreate ==
    AllocMore /\ Context2D__init__("Context2D", 600, 300)
AllocCreateOdd ==
    AllocMore /\ Len(hist) < MaxVariants /\ Context2D__init__("Context2D", -2, 300)
AllocCreateKarel ==
    AllocMore /\ Len(hist) < MaxVariants /\ KarelCanvas_super_init(600, 300)

NextAlloc ==
    \/ AllocCreate
    \/ AllocCreateOdd
    \/ AllocCreateKarel

SpecAlloc == Init /\ [][NextAlloc]_vars

----------------------------------------------------------------------------
(* The renderer's reading of the stream: frames laid out as                  *)
(* [4 bytes: payload_len+2] [1 byte: opcode] [1 byte: surface_id] [payload]  *)

RECURSIVE FromBigEndian(_)
FromBigEndian(b) ==
    IF b = <<>> THEN 0 ELSE 256 * FromBigEndian(SubSeq(b, 1, Len(b) - 1)) + b[Len(b)]

RECURSIVE ParseFrames(_)
\* the frames of a byte stream, and whether the whole stream was consumed
ParseFrames(s) ==
    IF s = <<>> THEN [ok |-> TRUE, frames |-> <<>>]
    ELSE IF Len(s) < 6 THEN [ok |-> FALSE, frames |-> <<>>]
    ELSE LET n == FromBigEndian(SubSeq(s, 1, 4))
         IN  IF n < 2 \/ Len(s) < 4 + n THEN [ok |-> FALSE, frames |-> <<>>]
             ELSE LET rest == ParseFrames(SubSeq(s, 5 + n, Len(s)))
                  IN  [ok |-> rest.ok,
                       frames |-> <<[op |-> s[5], id |-> s[6],
                                     payload |-> SubSeq(s, 7, 4 + n)]>> \o rest.frames]

RECURSIVE LengthFields(_)
\* the declared length fields met when the stream is walked frame by frame
LengthFields(s) ==
    IF Len(s) < 4 THEN <<>>
    ELSE LET n == FromBigEndian(SubSeq(s, 1, 4))
         IN  <<n>> \o (IF Len(s) < 4 + n THEN <<>> ELSE LengthFields(SubSeq(s, 5 + n, Len(s))))

RECURSIVE FramesOf(_)
\* the frames handed to __dispatch by the calls of a history, in call order
FramesOf(h) == IF h = <<>> THEN <<>> ELSE Head(h).frames \o FramesOf(Tail(h))

Received == ParseFrames(stream).frames

\* the last call made, in the state after it
LastCall == hist[Len(hist)]

----------------------------------------------------------------------------
(* C1: cache coherence *)

\* the value a frame carries for property p
Carried(p, f) ==
    CASE p = "width" ->
            2 * FromBigEndian(IF f.op = EventType.create THEN SubSeq(f.payload, 1, 2)
                              ELSE f.payload)
      [] p = "height" ->
            2 * FromBigEndian(IF f.op = EventType.create THEN SubSeq(f.payload, 3, 4)
                              ELSE f.payload)
      [] p \in EnumProps -> TableOf(p)[f.payload[1] + 1]
      [] p \in FloatProps -> CHOOSE v \in FloatArgs(p) : pack_f(v).bytes = f.payload
      [] p \in StringProps ->
            CHOOSE v \in StringArgs(p) : _pack_string(v) = Ok(f.payload)
      [] p \in StyleProps -> CHOOSE v \in StyleArgs : pack_style(v) = Ok(f.payload)
      [] p = "line_dash" -> Tail(f.payload)
      [] p = "filter" -> CHOOSE v \in FilterArgs : v.t = "str" /\ _pack_string(v.s) = Ok(f.payload)
      [] p = "image_smoothing_enabled" -> f.payload = <<1>>

\* the frames that carry a value of property p for the surface with this id
CarriesProp(p, id, f) ==
    /\ f.id = id
    /\ \/ f.op = EventType[p]
       \/ p \in SizeProps /\ f.op = EventType.create

\* what the renderer holds for property p of the surface: the value of the last
\* frame dispatched for it, the property's default when there is none
Dispatched(p, id) ==
    LET fs == Received
        at == {n \in 1..Len(fs) : CarriesProp(p, id, fs[n])}
    IN  IF at = {} THEN Defaults[p]
        ELSE Carried(p, fs[CHOOSE n \in at : \A m \in at : m <= n])

\* C1: in every reachable state, for every surface and every cached property,
\* the value the getter returns equals the value carried by the last frame
\* dispatched for that property on that surface, or the default if there is none.
C1_CacheEqualsLastFrame ==
    \A k \in Objects : \A p \in Props :
        objs[k].cache[p] = Dispatched(p, objs[k].id)

----------------------------------------------------------------------------
(* C2: duplicate suppression *)

\* two calls of the same setter on the same object with the same argument
SameSetterCall(a, b) ==
    /\ a.op \in Props /\ a.op = b.op
    /\ a.obj = b.obj
    /\ a.arg = b.arg

\* the calls n and n+1 of the history repeat a setter call
Repeats(n) == n >= 1 /\ n < Len(hist) /\ SameSetterCall(hist[n], hist[n + 1])

\* C2 as stated: a setter called twice in succession with the same value appends
\* exactly one frame, and the second call writes nothing.
C2_ExactlyOneFrame ==
    \A n \in 1..Len(hist) :
        Repeats(n) =>
            /\ Len(hist[n].frames) + Len(hist[n + 1].frames) = 1
            /\ hist[n + 1].frames = <<>>

\* the argument of a call is a float NaN, which compares unequal to itself
IsNaNCall(e) == e.op \in FloatProps /\ e.arg.nan

\* C2 amended: when a setter is called twice in succession with the same value,
\* then, unless the value is a float NaN, the pair appends at most one frame and
\* the second call writes nothing and leaves every cache unchanged; with NaN each
\* of the two calls dispatches a frame.
C2_AtMostOneFrame ==
    [][LET a == hist[Len(hist)]
           b == hist'[Len(hist')]
       IN  (Len(hist) >= 1 /\ Len(hist') = Len(hist) + 1 /\ SameSetterCall(a, b)) =>
               IF IsNaNCall(b)
               THEN Len(a.frames) = 1 /\ Len(b.frames) = 1
               ELSE /\ Len(a.frames) + Len(b.frames) <= 1
                    /\ b.frames = <<>>
                    /\ stream' = stream
                    /\ objs' = objs]_vars

\* a setter called twice with a new, valid value: one frame, then none
C2_Witness ==
    \E n \in 1..Len(hist) :
        /\ Repeats(n)
        /\ Len(hist[n].frames) = 1
        /\ hist[n + 1].frames = <<>>
        /\ hist[n + 1].err = "none"

----------------------------------------------------------------------------
(* C3: framing *)

\* C3: the stream is a sequence of whole frames, each a 4-byte big-endian length,
\* an opcode byte, a surface-id byte and the payload, with the length equal to
\* len(payload) + 2; read back, it is exactly the sequence of frames dispatched.
C3_FrameLength ==
    LET sent == FramesOf(hist)
    IN  /\ ParseFrames(stream).ok
        /\ Received = sent
        /\ LengthFields(stream) = [n \in 1..Len(sent) |-> Len(sent[n].payload) + 2]

\* three frames with payloads of different lengths, one of them empty
C3_Witness ==
    /\ Len(Received) = 3
    /\ \E a, b \in 1..3 :
          /\ Received[a].payload = <<>>
          /\ Len(Received[b].payload) > 4

----------------------------------------------------------------------------
(* C4: order *)

\* C4: every call appends at most one frame, the one it dispatched, carrying the
\* id of the object it was called on, after all the frames written before, which
\* stay as they were: the stream is the frames of the dispatching calls in call
\* order, across all surfaces.
C4_CallOrder ==
    [][LET e == hist'[Len(hist')]
           old == ParseFrames(stream).frames
           new == ParseFrames(stream').frames
       IN  /\ Len(new) = Len(old) + Len(e.frames)
           /\ Len(e.frames) <= 1
           /\ SubSeq(new, 1, Len(old)) = old
           /\ e.frames # <<>> =>
                 /\ new[Len(new)] = e.frames[1]
                 /\ e.frames[1].id = e.id
                 /\ e.obj # 0 => e.id = objs'[e.obj].id]_vars

\* frames of two surfaces interleaved
C4_Witness ==
    /\ Len(Received) = 3
    /\ Received[1].id = 0 /\ Received[2].id = 1 /\ Received[3].id = 0

----------------------------------------------------------------------------
(* C5: the surface cap (allocator specification) *)

\* the rounded value fits the two unsigned bytes it is sent in
Representable(h) == round(h) >= 0 /\ round(h) <= 65535

\* a call that is a creation
IsCreation(e) == e.op = "create"

\* the number of creations attempted in a history
Creations(h) == Len(SelectSeq(h, IsCreation))

\* the creation frame of surface id with the default size 300 x 150
DefaultCreationFrame(id) == <<0, 0, 0, 6, 0, id, 1, 44, 0, 150>>

\* C5 as stated: each of the first 256 creations succeeds; a creation when 256
\* ids have already been allocated fails with the too-many-surfaces error and
\* writes no creation frame.
C5_First256Succeed ==
    [][LET e == hist'[Len(hist')]
       IN  e.op = "create" =>
              /\ Creations(hist) < 256 => e.err = "none" /\ Len(objs') = Len(objs) + 1
              /\ next_id >= 256 =>
                    e.err = "Exception" /\ stream' = stream /\ objs' = objs]_vars

\* C5 amended: each of the first 256 creations whose rounded width and height
\* fit the two unsigned bytes of the creation frame (0..65535) succeeds, as the
\* surface with the next id and with its creation frame written; a creation when
\* 256 ids have already been allocated fails with the too-many-surfaces error,
\* writes nothing and creates no surface.
C5_First256ValidSucceed ==
    [][LET e == hist'[Len(hist')]
       IN  e.op = "create" =>
              /\ (Creations(hist) < 256 /\ Representable(e.arg[2]) /\ Representable(e.arg[3])) =>
                    /\ e.err = "none"
                    /\ Len(objs') = Len(objs) + 1
                    /\ objs'[Len(objs')].id = Creations(hist)
                    /\ e.arg = <<"Context2D", 600, 300>> =>
                          stream' = stream \o DefaultCreationFrame(Creations(hist))
              /\ next_id >= 256 =>
                    e.err = "Exception" /\ stream' = stream /\ objs' = objs]_vars

\* 256 surfaces exist and a further creation has been refused
C5_Witness ==
    /\ Len(objs) = 256
    /\ LastCall.op = "create" /\ LastCall.err = "Exception"
    /\ Len(hist) > 256

----------------------------------------------------------------------------
(* C6: surface ids (allocator specification) *)

\* the ids taken by the creations of a history, in call order
CreateIds(h) ==
    LET c == SelectSeq(h, IsCreation) IN [n \in 1..Len(c) |-> c[n].id]

\* C6: ids are taken from one counter in increasing order starting at 0, and any
\* two surfaces created, KarelCanvas instances included, have distinct ids, each
\* in 0..255 (the later surface has the greater id).
C6_UniqueIds ==
    /\ CreateIds(hist) = [n \in 1..next_id |-> n - 1]
    /\ \A a, b \in Objects : a < b => objs[a].id < objs[b].id
    /\ \A a \in Objects : objs[a].id >= 0 /\ objs[a].id <= 255

\* a KarelCanvas and a Context2D exist, and the surface with id 255 too
C6_Witness ==
    /\ \E a, b \in Objects : objs[a].kind = "KarelCanvas" /\ objs[b].kind = "Context2D"
    /\ \E a \in Objects : objs[a].id = 255

----------------------------------------------------------------------------
(* C7: the creation frame *)

\* r is x rounded to a nearest integer, x given in halves
IsRounded(h, r) == 2 * r - h \in {-1, 0, 1}

\* C7: for every surface created, the first frame in the stream with its id is
\* the creation frame (opcode 0) whose payload is the rounded width and the
\* rounded height as 2-byte big-endian integers, 300 and 150 by default.
C7_CreationFrameFirst ==
    \A n \in 1..Len(hist) :
        (hist[n].op = "create" /\ hist[n].obj # 0) =>
            LET id == objs[hist[n].obj].id
                fs == Received
                at == {m \in 1..Len(fs) : fs[m].id = id}
            IN  /\ at # {}
                /\ LET f == fs[CHOOSE m \in at : \A l \in at : m <= l]
                   IN  /\ f.op = 0
                       /\ Len(f.payload) = 4
                       /\ IsRounded(hist[n].arg[2], FromBigEndian(SubSeq(f.payload, 1, 2)))
                       /\ IsRounded(hist[n].arg[3], FromBigEndian(SubSeq(f.payload, 3, 4)))
                       /\ (hist[n].arg[2] = 600 /\ hist[n].arg[3] = 300) =>
                             f.payload = <<1, 44, 0, 150>>

\* two surfaces, the second created with a non-integer size, and a later frame
\* of the first
C7_Witness ==
    /\ Len(objs) = 2
    /\ objs[2].cache.width = 601
    /\ Len(Received) = 3 /\ Received[3].id = objs[1].id

----------------------------------------------------------------------------
(* C8: defaults are not dispatched, changes are *)

\* the payload of the frame that sets property p to v
Encoded(p, v) ==
    CASE p \in SizeProps -> to_bytes(round(v), 2)
      [] p \in EnumProps -> _pack_enum(v, TableOf(p))
      [] p \in FloatProps -> pack_f(v)
      [] p \in StringProps -> _pack_string(v)
      [] p \in StyleProps -> pack_style(v)
      [] p = "line_dash" -> pack_B(<<Len(v)>> \o v)
      [] p = "filter" -> _pack_string(v.s)
      [] p = "image_smoothing_enabled" -> pack_bool(v)

\* v is a value other than the default of p (for the sizes: after rounding)
Differs(p, v) ==
    IF p \in SizeProps THEN 2 * round(v) # Defaults[p] ELSE v # Defaults[p]

\* call n created a surface on which property p has its default
CreatedWithDefault(n, p) ==
    /\ hist[n].op = "create" /\ hist[n].obj # 0
    /\ p = "width" => hist[n].arg[2] = Defaults.width
    /\ p = "height" => hist[n].arg[3] = Defaults.height

----------------------------------------------------------------------------
(* C9: width and height are rounded before the comparison *)

\* the frame bytes of a resize of surface id to size r
ResizeFrame(p, id, r) ==
    <<0, 0, 0, 4, IF p = "width" THEN 2 ELSE 3, id, r \div 256, r % 256>>

\* C9 as stated: the value is rounded; if the rounded value equals the cached
\* one nothing is dispatched and the cache is unchanged, otherwise exactly one
\* frame (opcode 2 or 3) with the rounded value is dispatched and cached.
C9_RoundThenCompare ==
    [][LET e == hist'[Len(hist')]
       IN  e.op \in SizeProps =>
              \E r \in -1..301 :
                 /\ IsRounded(e.arg, r)
                 /\ IF 2 * r = objs[e.obj].cache[e.op]
                    THEN stream' = stream /\ objs' = objs
                    ELSE /\ stream' = stream \o ResizeFrame(e.op, e.id, r)
                         /\ objs' = [objs EXCEPT ![e.obj].cache[e.op] = 2 * r]]_vars

\* C9 amended: as stated when the rounded value lies in 0..65535; a rounded
\* value outside that range that differs from the cached one is rejected with
\* an OverflowError, nothing is dispatched and the cache is unchanged.
C9_RoundThenCompareInRange ==
    [][LET e == hist'[Len(hist')]
       IN  e.op \in SizeProps =>
              \E r \in -1..301 :
                 /\ IsRounded(e.arg, r)
                 /\ IF 2 * r = objs[e.obj].cache[e.op]
                    THEN stream' = stream /\ objs' = objs /\ e.err = "none"
                    ELSE IF r >= 0 /\ r <= 65535
                    THEN /\ stream' = stream \o ResizeFrame(e.op, e.id, r)
                         /\ objs' = [objs EXCEPT ![e.obj].cache[e.op] = 2 * r]
                         /\ e.err = "none"
                    ELSE /\ stream' = stream /\ objs' = objs
                         /\ e.err = "OverflowError"]_vars

\* 300.5 set on a surface holding 300 was suppressed, and a resize was dispatched
C9_Witness ==
    /\ \E n \in 1..Len(hist) :
          /\ hist[n].op = "width" /\ hist[n].arg = 601
          /\ hist[n].frames = <<>> /\ hist[n].err = "none"
    /\ \E n \in 1..Len(hist) :
          /\ hist[n].op = "width" /\ hist[n].arg = 5
          /\ hist[n].frames = <<[op |-> 2, id |-> hist[n].id, payload |-> <<0, 2>>]>>

----------------------------------------------------------------------------
(* C10: enum values *)

\* the table of an enum-typed setter or operation
DomainOf(op) == IF op \in FillRuleOps THEN _FILL_RULE ELSE TableOf(op)

\* the byte each setter or operation sends for a key, read off the tables
CodeOf ==
    {<<"text_rendering", "auto", 0>>, <<"text_rendering", "geometricPrecision", 3>>,
     <<"line_cap", "butt", 0>>, <<"line_cap", "square", 2>>,
     <<"line_join", "miter", 0>>, <<"line_join", "round", 2>>,
     <<"text_align", "start", 0>>, <<"text_align", "center", 4>>,
     <<"text_baseline", "alphabetic", 0>>, <<"text_baseline", "ideographic", 5>>,
     <<"direction", "inherit", 0>>, <<"direction", "rtl", 2>>,
     <<"font_kerning", "auto", 0>>, <<"font_kerning", "none", 2>>,
     <<"font_stretch", "normal", 0>>, <<"font_stretch", "ultra-expanded", 8>>,
     <<"font_variant_caps", "normal", 0>>, <<"font_variant_caps", "titling-caps", 6>>,
     <<"global_composite_operation", "source-over", 0>>,
     <<"global_composite_operation", "luminosity", 25>>,
     <<"image_smoothing_quality", "low", 0>>, <<"image_smoothing_quality", "high", 2>>,
     <<"fill", "nonzero", 0>>, <<"fill", "evenodd", 1>>,
     <<"clip", "nonzero", 0>>, <<"clip", "evenodd", 1>>}

\* C10: for every enum-typed setter and for fill and clip, a string that is no
\* key of the domain's table raises a ValueError listing the valid keys, writes
\* nothing and leaves every cache unchanged; a valid key is sent as the single
\* byte the table assigns to it.
C10_EnumValues ==
    [][LET e == hist'[Len(hist')]
       IN  e.op \in EnumProps \cup FillRuleOps =>
              IF e.arg \notin Keys(DomainOf(e.op))
              THEN /\ e.err = "ValueError"
                   /\ Keys(e.valid) = Keys(DomainOf(e.op))
                   /\ stream' = stream
                   /\ objs' = objs
              ELSE /\ e.err = "none"
                   /\ \A n \in 1..Len(e.frames) :
                         /\ Len(e.frames[n].payload) = 1
                         /\ DomainOf(e.op)[e.frames[n].payload[1] + 1] = e.arg
                         /\ <<e.op, e.arg, e.frames[n].payload[1]>> \in CodeOf
                   /\ e.frames # <<>> =>
                         stream' = stream \o <<0, 0, 0, 3, EventType[e.op], e.id>>
                                          \o e.frames[1].payload]_vars

\* an invalid value was refused and a valid one dispatched
C10_Witness ==
    /\ \E n \in 1..Len(hist) :
          /\ hist[n].op = "text_align" /\ hist[n].arg = "bogus"
          /\ hist[n].err = "ValueError"
    /\ \E n \in 1..Len(hist) :
          /\ hist[n].op = "text_align" /\ hist[n].arg = "center"
          /\ hist[n].frames = <<[op |-> 17, id |-> hist[n].id, payload |-> <<4>>]>>

----------------------------------------------------------------------------
(* Operations that take coordinates *)

MaxPathCalls == 3

\* operations whose payload is two rounded coordinates
PointOps == {"move_to", "line_to", "translate"}

\* move_to, line_to, translate and rect (through __dispatch_rect): encode every
\* coordinate, then dispatch
CoordOp(op, k, cs) ==
    LET data == pack_coords(cs)
    IN  IF data.ok THEN Dispatches(op, k, cs, data.bytes, objs[k].cache)
        ELSE Ends(op, k, cs, data, objs[k].cache)

\* coordinates explored, in halves: 0, 2.5, -0.5, -1, -32768, -32769, 32767,
\* 32768, 65535, 65536
CoordArgs == {0, 5, -1, -2, -65536, -65538, 65534, 65536, 131070, 131072}
SecondCoordArgs == {0, -2, 65536}

PathMore == Len(hist) < MaxPathCalls

PathCreate == PathMore /\ Context2D__init__("Context2D", Defaults.width, Defaults.height)
PathPoint ==
    PathMore /\ \E k \in Objects, op \in PointOps, x \in CoordArgs, y \in SecondCoordArgs :
        CoordOp(op, k, <<x, y>>)
PathRect ==
    PathMore /\ \E k \in Objects, w \in CoordArgs, h \in SecondCoordArgs :
        CoordOp("rect", k, <<0, 0, w, h>>)

NextPath ==
    \/ PathCreate
    \/ PathPoint
    \/ PathRect

SpecPath == Init /\ [][NextPath]_vars

----------------------------------------------------------------------------
(* C11: the range of coordinates *)

CoordOps == PointOps \cup {"rect"}

\* the integers x (in halves) may round to
Roundings(h) == {r \in {(h - 1) \div 2, h \div 2, (h + 1) \div 2} : IsRounded(h, r)}

\* every rounding of the coordinate lies in the signed 16-bit range
InSigned16(h) == \A r \in Roundings(h) : r >= -32768 /\ r <= 32767

\* C11: every call with all coordinates rounding into [-32768, 32767] dispatches
\* one frame with a 2-byte field per coordinate; a call with a coordinate
\* rounding outside that range raises an error and writes no frame.
C11_SignedRange ==
    \A n \in 1..Len(hist) :
        hist[n].op \in CoordOps =>
            IF \A i \in 1..Len(hist[n].arg) : InSigned16(hist[n].arg[i])
            THEN /\ hist[n].err = "none"
                 /\ Len(hist[n].frames) = 1
                 /\ Len(hist[n].frames[1].payload) = 2 * Len(hist[n].arg)
            ELSE /\ hist[n].err # "none"
                 /\ hist[n].frames = <<>>

----------------------------------------------------------------------------
(* C12: the count of a packed string *)

\* C12: in every frame of a string-valued property the 4-byte count equals the
\* number of bytes that follow it, multi-byte characters included.
C12_CountIsByteLength ==
    \A n \in 1..Len(hist) :
        (hist[n].op \in StringProps /\ hist[n].frames # <<>>) =>
            LET payload == hist[n].frames[1].payload
            IN  FromBigEndian(SubSeq(payload, 1, 4)) = Len(payload) - 4

----------------------------------------------------------------------------
(* Gradient operations *)

MaxGradCalls == 5
MaxGradients == 2

\* create_linear_gradient, create_conic_gradient, create_radial_gradient: a new
\* gradient object without stops; nothing is sent
create_gradient(k, kind, geom, angle) ==
    /\ grads' = Append(grads, NewGradient(kind, geom, angle))
    /\ hist' = Append(hist, Entry("create_gradient", k, objs[k].id,
                                  <<kind, geom, angle>>, "none", <<>>, <<>>))
    /\ UNCHANGED <<next_id, stream, objs, qvars, tvars>>

\* offset < 0 or offset > 1 (both False for NaN); offsets are in halves
OffsetRejected(offset) == ~offset.nan /\ (offset.h < 0 \/ offset.h > 2)

\* CanvasGradient.add_color_stop
add_color_stop(g, offset, color) ==
    /\ grads' = IF OffsetRejected(offset) THEN grads
                ELSE [grads EXCEPT ![g].stops =
                         Append(@, [offset |-> offset, color |-> color])]
    /\ hist' = Append(hist, Entry("add_color_stop", 0, g, <<g, offset, color>>,
                                  IF OffsetRejected(offset) THEN "ValueError" ELSE "none",
                                  <<>>, <<>>))
    /\ UNCHANGED <<next_id, stream, objs, qvars, tvars>>

\* gradients explored: one of each kind, and a linear one left of the origin
GradientArgs ==
    {<<"linear", <<2, 4, 6, 8>>, F(0)>>, <<"conic", <<2, 4>>, F(1)>>,
     <<"radial", <<2, 4, 6, 8, 10, 12>>, F(0)>>, <<"linear", <<-2, 4, 6, 8>>, F(0)>>}

\* stops explored: offsets 0.5, 0, 1, 1.5, -0.5 and NaN
StopArgs ==
    {<<F(1), S_red>>, <<F(0), S_black>>, <<F(2), S_e_acute>>, <<F(3), S_red>>,
     <<F(-1), S_red>>, <<NaN, S_red>>}

Gradients == 1..Len(grads)
GradMore == Len(hist) < MaxGradCalls

GradCreate ==
    /\ GradMore /\ objs = <<>>
    /\ Context2D__init__("Context2D", Defaults.width, Defaults.height)
GradNew ==
    /\ GradMore /\ Len(grads) < MaxGradients
    /\ \E k \in Objects, a \in GradientArgs : create_gradient(k, a[1], a[2], a[3])
GradAddStop ==
    GradMore /\ \E g \in Gradients, a \in StopArgs : add_color_stop(g, a[1], a[2])
GradSetStyle ==
    GradMore /\ \E k \in Objects, p \in StyleProps :
        \E v \in {Color(S_red)} \cup {GradientRef(g) : g \in Gradients} :
            StyleSetter(p, k, v)

NextGradient ==
    \/ GradCreate
    \/ GradNew
    \/ GradAddStop
    \/ GradSetStyle

SpecGradient == Init /\ [][NextGradient]_vars

----------------------------------------------------------------------------
(* C13: the payload of a style frame *)

RECURSIVE StopsLayout(_)
\* every stop in insertion order: a float offset, then a length-prefixed color
StopsLayout(stops) ==
    IF stops = <<>> THEN <<>>
    ELSE pack_f(Head(stops).offset).bytes \o _pack_string(Head(stops).color).bytes
         \o StopsLayout(Tail(stops))

RECURSIVE GeometryLayout(_)
\* every geometry field rounded, as two big-endian bytes
GeometryLayout(geom) ==
    IF geom = <<>> THEN <<>>
    ELSE BigEndian(round(Head(geom)), 2) \o GeometryLayout(Tail(geom))

\* tag 0x01, the stop count, the stops, the kind tag, the kind's geometry
GradientLayout(g) ==
    <<1, Len(g.stops)>> \o StopsLayout(g.stops)
    \o <<CASE g.kind = "linear" -> 0 [] g.kind = "conic" -> 1 [] g.kind = "radial" -> 2>>
    \o GeometryLayout(g.geom)
    \o (IF g.kind = "conic" THEN pack_f(g.angle).bytes ELSE <<>>)

\* the gradient can be put in a frame: at most 255 stops and a geometry that
\* rounds into 0..65535
Encodable(g) ==
    /\ Len(g.stops) <= 255
    /\ \A i \in 1..Len(g.geom) : Representable(g.geom[i])

\* the opcode of a style property
StyleOpcode(p) == IF p = "fill_style" THEN 25 ELSE 26

\* C13 as stated: setting fill_style / stroke_style to a gradient dispatches one
\* frame (opcode 25 / 26) whose payload is tag 0x01, the stop count, the stops
\* in insertion order, the kind tag and the geometry; a flat color that is
\* dispatched is sent as tag 0x00 and the length-prefixed string.
C13_GradientDispatched ==
    [][LET e == hist'[Len(hist')]
       IN  e.op \in StyleProps =>
              IF e.arg.t = "str"
              THEN e.frames # <<>> =>
                      e.frames[1].payload = <<0>> \o _pack_string(e.arg.s).bytes
              ELSE e.frames = <<[op |-> StyleOpcode(e.op), id |-> e.id,
                                 payload |-> GradientLayout(grads[e.arg.s[1]])]>>]_vars

\* C13 amended: setting fill_style / stroke_style to a gradient dispatches at
\* most one frame: exactly one, with opcode 25 / 26 and the payload tag 0x01,
\* stop count, stops in insertion order, kind tag, geometry, when the gradient
\* is not equal to the cached style and can be encoded; none when it equals
\* the cached style or cannot be encoded.  A flat color that is dispatched is
\* sent as tag 0x00 and the length-prefixed string.
C13_GradientLayout ==
    [][LET e == hist'[Len(hist')]
       IN  e.op \in StyleProps =>
              IF e.arg.t = "str"
              THEN e.frames # <<>> =>
                      e.frames[1].payload = <<0>> \o _pack_string(e.arg.s).bytes
              ELSE LET g == grads[e.arg.s[1]]
                   IN  IF ~StyleEq(e.arg, objs[e.obj].cache[e.op]) /\ Encodable(g)
                       THEN /\ e.err = "none"
                            /\ e.frames = <<[op |-> StyleOpcode(e.op), id |-> e.id,
                                             payload |-> GradientLayout(g)]>>
                            /\ stream' = stream \o BigEndian(Len(GradientLayout(g)) + 2, 4)
                                              \o <<StyleOpcode(e.op), e.id>>
                                              \o GradientLayout(g)
                            /\ (g.kind = "linear" /\ g.geom = <<2, 4, 6, 8>>
                                /\ g.stops = <<[offset |-> F(1), color |-> S_red]>>) =>
                                  e.frames[1].payload =
                                     <<1, 1, 0, 0, 0, 63, 0, 0, 0, 3, 114, 101, 100,
                                       0, 0, 1, 0, 2, 0, 3, 0, 4>>
                       ELSE e.frames = <<>> /\ stream' = stream /\ objs' = objs]_vars

\* a gradient with two different stops was dispatched as fill_style
C13_Witness ==
    /\ hist # <<>>
    /\ LastCall.op = "fill_style" /\ LastCall.arg.t = "CanvasGradient"
    /\ Len(LastCall.frames) = 1
    /\ LastCall.frames[1].payload[2] = 2
    /\ grads[LastCall.arg.s[1]].stops[1] # grads[LastCall.arg.s[1]].stops[2]

----------------------------------------------------------------------------
(* C14: the offsets of color stops *)

\* the offset lies in [0, 1]
InUnitInterval(offset) == ~offset.nan /\ offset.h >= 0 /\ offset.h <= 2

\* C14: add_color_stop with an offset outside [0,1] raises an error and leaves
\* the stops unchanged, with an offset in [0,1] it appends the stop; all stops
\* of every gradient have offsets in [0,1].
C14_OffsetsInRange ==
    /\ \A n \in 1..Len(hist) :
          hist[n].op = "add_color_stop" =>
             (hist[n].err = "none" <=> InUnitInterval(hist[n].arg[2]))
    /\ \A g \in Gradients : \A i \in 1..Len(grads[g].stops) :
          InUnitInterval(grads[g].stops[i].offset)

----------------------------------------------------------------------------
(* A gradient that grows to the stop limit and past it *)

MaxAssign == 2

\* a call of a style setter
IsStyleCall(e) == e.op \in StyleProps

\* the stops of the one gradient of this specification
Stops == grads[1].stops

StopsCreate ==
    /\ objs = <<>>
    /\ Context2D__init__("Context2D", Defaults.width, Defaults.height)
StopsNew ==
    /\ objs # <<>> /\ grads = <<>>
    /\ create_gradient(1, "linear", <<0, 0, 2, 2>>, F(0))
StopsAdd ==
    /\ grads # <<>> /\ Len(Stops) < 255 + MaxOver
    /\ add_color_stop(1, F(1), S_red)
StopsAssign ==
    /\ grads # <<>> /\ Len(Stops) + MaxOver >= 255
    /\ Len(SelectSeq(hist, IsStyleCall)) < MaxAssign
    /\ \E p \in StyleProps : StyleSetter(p, 1, GradientRef(1))

NextStops ==
    \/ StopsCreate
    \/ StopsNew
    \/ StopsAdd
    \/ StopsAssign

SpecStops == Init /\ [][NextStops]_vars

----------------------------------------------------------------------------
(* C15: more than 255 stops *)

\* C15: assigning a gradient with more than 255 stops as fill_style or
\* stroke_style is rejected with an error, writes no frame and leaves the cached
\* style unchanged; the stop-count byte of a gradient frame equals the number of
\* stops encoded after it (11 bytes each for the stops explored, then 9 bytes of
\* kind and geometry).
C15_TooManyStopsRejected ==
    [][LET e == hist'[Len(hist')]
       IN  (e.op \in StyleProps /\ e.arg.t = "CanvasGradient") =>
              /\ Len(grads[e.arg.s[1]].stops) > 255 =>
                    /\ e.err # "none"
                    /\ e.frames = <<>>
                    /\ stream' = stream
                    /\ objs' = objs
              /\ e.frames # <<>> =>
                    /\ e.frames[1].payload[2] = Len(grads[e.arg.s[1]].stops)
                    /\ Len(e.frames[1].payload) = 2 + 11 * e.frames[1].payload[2] + 9]_vars

----------------------------------------------------------------------------
(* HTMLCanvas: the query protocol.  Four modules define an HTMLCanvas; a      *)
(* program imports one of them.                                              *)

\* packages/python/canvas/__init__.py, packages/python/canvas/canvas.py,
\* src/execution/canvas.py and packages/py/canvas/__init__.py
Variants == {"python/canvas", "python/canvas/canvas", "execution/canvas", "py/canvas"}

\* the modules that write to /.canvas/<action>, length-prefixed
Framed(v) == v # "py/canvas"
\* the modules whose HTMLCanvas has the __enabled flag
HasEnabled(v) == v \in {"python/canvas", "py/canvas"}

(* JSON values: the text json.dumps gives and Python's truth value. *)
JNull == [t |-> "null", text |-> "null", truthy |-> FALSE]
JStr(str) == [t |-> "str", text |-> "\"" \o str \o "\"", truthy |-> str # ""]
JNum(n) == [t |-> "num", text |-> ToString(n), truthy |-> n # 0]
JObj(text) == [t |-> "object", text |-> text, truthy |-> TRUE]
\* what json.loads cannot parse
Invalid == [t |-> "invalid", text |-> "", truthy |-> FALSE]

RECURSIVE JoinTexts(_)
\* the texts of the values separated by ", "
JoinTexts(values) ==
    IF values = <<>> THEN ""
    ELSE IF Len(values) = 1 THEN values[1].text
    ELSE values[1].text \o ", " \o JoinTexts(Tail(values))

\* a tuple of arguments, dumped as a JSON array
JArray(args) ==
    [t |-> "array", text |-> "[" \o JoinTexts(args) \o "]", truthy |-> args # <<>>]

\* a member of a JSON object
Member(key, value) ==
    [t |-> "member", key |-> key, text |-> "\"" \o key \o "\": " \o value.text,
     truthy |-> TRUE]

\* json.dumps of a dict given as its members in insertion order
json_dumps(req) == "{" \o JoinTexts(req) \o "}"

\* the dict __static_dispatch builds: args only when some were passed, then the
\* id; py/canvas adds the id only when it is truthy, and then the action
Request(v, id, action, args) ==
    (IF Len(args) > 0 THEN <<Member("args", JArray(args))>> ELSE <<>>)
    \o (IF Framed(v) \/ id.truthy THEN <<Member("id", id)>> ELSE <<>>)
    \o (IF Framed(v) THEN <<>> ELSE <<Member("action", JStr(action))>>)

\* the file a request goes to
FileOf(v, action) == IF Framed(v) THEN "/.canvas/" \o action ELSE "/.canvas"

(* What a mailbox holds: the bytes of a length prefix, the text after it, and *)
(* the value json.loads gives for that text.                                 *)
Content(prefix, body, value) == [prefix |-> prefix, body |-> body, value |-> value]

\* struct.pack(">I", n)
struct_pack_I(n) == BigEndian(n, 4)

\* what the client writes for a request
Written(v, req) ==
    LET body == json_dumps(req)
    IN  Content(IF Framed(v) THEN struct_pack_I(Len(body)) ELSE <<>>, body, JObj(body))

\* an I/O event on a mailbox
WriteEvent(file, content, req) ==
    [ev |-> "write", file |-> file, content |-> content,
     keys |-> {req[i].key : i \in 1..Len(req)}]
ReadEvent(file, content) ==
    [ev |-> "read", file |-> file, content |-> content, keys |-> {}]

\* the outcome of a call: the value returned (JNull for None) or the error raised
Returns(value) == [ret |-> value, err |-> "none"]
Raises(err) == [ret |-> Invalid, err |-> err]

\* the `with open(file, "rb")` part of __static_dispatch, and json.load inside
\* try/except in py/canvas, given what the mailbox holds
ReadReply(v, content) ==
    IF ~Framed(v)
    THEN IF content.value.t = "invalid" THEN Returns(JNull) ELSE Returns(content.value)
    ELSE IF Len(content.prefix) < 4 THEN Raises("ValueError")
    ELSE IF Len(content.body) < FromBigEndian(content.prefix) THEN Raises("ValueError")
    ELSE IF FromBigEndian(content.prefix) = 0 THEN Returns(JNull)
    ELSE IF content.value.t = "invalid" THEN Raises("JSONDecodeError")
    ELSE Returns(content.value)

\* a dispatch that reads once more after a read that failed
__static_dispatch_retry(v, id, action, args, result, reply) ==
    LET req == Request(v, id, action, args)
        file == FileOf(v, action)
        out == IF result THEN ReadReply(v, reply) ELSE Returns(JNull)
    IN  [events |-> <<WriteEvent(file, Written(v, req), req)>>
                    \o (IF result THEN <<ReadEvent(file, reply)>> ELSE <<>>)
                    \o (IF out.err # "none" THEN <<ReadEvent(file, reply)>> ELSE <<>>),
         out |-> out]

\* HTMLCanvas.__static_dispatch (__dispatch in execution/canvas): write the
\* request; if a result is wanted, read the same file; `reply` is what the file
\* holds by then
__static_dispatch(v, id, action, args, result, reply) ==
    LET req == Request(v, id, action, args)
        file == FileOf(v, action)
    IN  [events |-> <<WriteEvent(file, Written(v, req), req)>>
                    \o (IF result THEN <<ReadEvent(file, reply)>> ELSE <<>>),
         out |-> IF result THEN ReadReply(v, reply) ELSE Returns(JNull)]

\* the default of `result` / `return_value` in HTMLCanvas.__dispatch
DispatchDefault(v) == v # "py/canvas"

\* HTMLCanvas.__dispatch: nothing when the canvas is disabled
__dispatch_canvas(v, c, action, args, result, reply) ==
    IF HasEnabled(v) /\ ~canvases[c].enabled
    THEN [events |-> <<>>, out |-> Returns(JNull)]
    ELSE __static_dispatch(v, canvases[c].id, action, args, result, reply)

\* a dispatch of this shape reads the mailbox
Reads(v, c, result) ==
    result /\ (c = 0 \/ ~HasEnabled(v) \/ canvases[c].enabled)

\* what the mailbox may hold when the client reads it after writing `req`: the
\* request itself, a reply "c1", a reply 300, nothing, two bytes of a prefix, a
\* zero length, a body cut short
Replies(v, id, action, args) ==
    IF Framed(v)
    THEN {Written(v, Request(v, id, action, args)),
          Content(<<0, 0, 0, 4>>, "\"c1\"", JStr("c1")),
          Content(<<0, 0, 0, 3>>, "300", JNum(300)),
          Content(<<>>, "", Invalid),
          Content(<<0, 0>>, "", Invalid),
          Content(<<0, 0, 0, 0>>, "", Invalid),
          Content(<<0, 0, 0, 4>>, "\"c", Invalid)}
    ELSE {Written(v, Request(v, id, action, args)),
          Content(<<>>, "\"c1\"", JStr("c1")),
          Content(<<>>, "null", JNull),
          Content(<<>>, "", Invalid),
          Content(<<>>, "\"c", Invalid)}

\* the replies to choose from: one placeholder when nothing is read
RepliesIf(reads, v, id, action, args) ==
    IF reads THEN Replies(v, id, action, args) ELSE {Content(<<>>, "", Invalid)}

\* a call, as the observer records it
QEntry(op, c, args, d) ==
    [op |-> op, c |-> c, args |-> args, ret |-> d.out.ret, err |-> d.out.err,
     events |-> d.events]

\* a call that repeats the warning on a surface without an id
Called_warning(op, c, args, d, after) ==
    /\ io' = io \o d.events
    /\ qhist' = Append(qhist, [op |-> op, c |-> c, args |-> args, ret |-> d.out.ret,
                               err |-> d.out.err, events |-> d.events])
    /\ canvases' = after
    /\ printed' = IF c # 0 /\ ~canvases[c].id.truthy THEN printed + 1 ELSE printed
    /\ UNCHANGED <<variant, next_id, stream, objs, hist, grads, tvars>>

\* the bookkeeping of a call that is not a construction
Called(op, c, args, d, after) ==
    /\ io' = io \o d.events
    /\ qhist' = Append(qhist, QEntry(op, c, args, d))
    /\ canvases' = after
    /\ UNCHANGED <<variant, printed, next_id, stream, objs, hist, grads, tvars>>

\* HTMLCanvas.__init__: the creation handshake; a falsy id prints the warning
\* and, where the flag exists, disables the canvas
HTMLCanvas__init__(reply) ==
    LET d == __static_dispatch(variant, JStr(""), "new", <<>>, TRUE, reply)
        failed == ~d.out.ret.truthy
    IN  /\ io' = io \o d.events
        /\ qhist' = Append(qhist, QEntry("new", 0, <<>>, d))
        /\ canvases' = IF d.out.err # "none" THEN canvases
                       ELSE Append(canvases,
                                   [id |-> d.out.ret,
                                    enabled |-> ~(HasEnabled(variant) /\ failed),
                                    width |-> 300])
        /\ printed' = IF d.out.err = "none" /\ failed THEN printed + 1 ELSE printed
        /\ UNCHANGED <<variant, next_id, stream, objs, hist, grads, tvars>>

\* a sleep that asks for a result
sleep_with_result(ms, reply) ==
    Called("sleep", 0, <<ms>>,
           __static_dispatch(variant, JNull, "sleep", <<JNum(ms)>>, TRUE, reply),
           canvases)

\* HTMLCanvas.sleep
sleep(ms, reply) ==
    Called("sleep", 0, <<ms>>,
           __static_dispatch(variant, JNull, "sleep", <<JNum(ms)>>, FALSE, reply),
           canvases)

\* HTMLCanvas.commit
commit(c, reply) ==
    Called("commit", c, <<>>,
           __dispatch_canvas(variant, c, "commit", <<>>, DispatchDefault(variant), reply),
           canvases)

\* the width setter: python/canvas and py/canvas store the value, then dispatch
\* set_width; the other two dispatch setWidth / width without a result
set_width(c, value, reply) ==
    IF HasEnabled(variant)
    THEN Called("set_width", c, <<value>>,
                __dispatch_canvas(variant, c, "set_width", <<JNum(value)>>,
                                  DispatchDefault(variant), reply),
                [canvases EXCEPT ![c].width = value])
    ELSE Called("set_width", c, <<value>>,
                __dispatch_canvas(variant, c,
                                  IF variant = "execution/canvas" THEN "width" ELSE "setWidth",
                                  <<JNum(value)>>, FALSE, reply),
                canvases)

\* the width getter: the stored value, or a query for it
get_width(c, reply) ==
    IF HasEnabled(variant)
    THEN Called("get_width", c, <<>>,
                [events |-> <<>>, out |-> Returns(JNum(canvases[c].width))], canvases)
    ELSE Called("get_width", c, <<>>,
                __dispatch_canvas(variant, c, "width", <<>>, TRUE, reply), canvases)

\* fillRect / fill_rect
fill_rect(c, reply) ==
    Called("fill_rect", c, <<0, 0, 10, 20>>,
           __dispatch_canvas(variant, c, "fillRect",
                             <<JNum(0), JNum(0), JNum(10), JNum(20)>>,
                             IF HasEnabled(variant) THEN DispatchDefault(variant) ELSE FALSE,
                             reply),
           canvases)

----------------------------------------------------------------------------
(* The query specification: a program that imported one of the HTMLCanvas     *)
(* modules makes MaxQueryCalls calls.                                         *)

MaxQueryCalls == 3

InitQuery ==
    /\ next_id = 0
    /\ stream = <<>>
    /\ objs = <<>>
    /\ hist = <<>>
    /\ grads = <<>>
    /\ variant \in Variants
    /\ canvases = <<>>
    /\ io = <<>>
    /\ qhist = <<>>
    /\ printed = 0
    /\ lock = 0
    /\ threads = <<>>

QMore == Len(qhist) < MaxQueryCalls
Canvases == 1..Len(canvases)
WidthArgs == {300, 500}

QNew ==
    QMore /\ \E reply \in Replies(variant, JStr(""), "new", <<>>) : HTMLCanvas__init__(reply)
QSleep ==
    /\ QMore /\ variant # "execution/canvas"
    /\ \E reply \in RepliesIf(FALSE, variant, JNull, "sleep", <<JNum(300)>>) :
          sleep(300, reply)
QCommit ==
    /\ QMore /\ HasEnabled(variant)
    /\ \E c \in Canvases :
          \E reply \in RepliesIf(Reads(variant, c, DispatchDefault(variant)), variant,
                                 canvases[c].id, "commit", <<>>) :
             commit(c, reply)
QSetWidth ==
    QMore /\ \E c \in Canvases, value \in WidthArgs :
        \E reply \in RepliesIf(Reads(variant, c, HasEnabled(variant) /\ DispatchDefault(variant)),
                               variant, canvases[c].id, "set_width", <<JNum(value)>>) :
           set_width(c, value, reply)
QGetWidth ==
    QMore /\ \E c \in Canvases :
        \E reply \in RepliesIf(~HasEnabled(variant), variant, canvases[c].id, "width", <<>>) :
           get_width(c, reply)
QFillRect ==
    QMore /\ \E c \in Canvases :
        \E reply \in RepliesIf(Reads(variant, c, HasEnabled(variant) /\ DispatchDefault(variant)),
                               variant, canvases[c].id, "fillRect",
                               <<JNum(0), JNum(0), JNum(10), JNum(20)>>) :
           fill_rect(c, reply)

NextQuery ==
    \/ QNew
    \/ QSleep
    \/ QCommit
    \/ QSetWidth
    \/ QGetWidth
    \/ QFillRect

SpecQuery == InitQuery /\ [][NextQuery]_vars

\* the call read a mailbox
HasRead(e) == \E i \in 1..Len(e.events) : e.events[i].ev = "read"

----------------------------------------------------------------------------
(* C16: no read without a reply to expect *)

\* C16: setters, drawing calls, commit and sleep write their request and read
\* nothing; only surface creation and property getters read.
C16_NoReadWithoutReply ==
    \A n \in 1..Len(qhist) :
        /\ qhist[n].op \in {"set_width", "fill_rect", "commit", "sleep"} => ~HasRead(qhist[n])
        /\ HasRead(qhist[n]) => qhist[n].op \in {"new", "get_width"}

----------------------------------------------------------------------------
(* C17: sleep *)

----------------------------------------------------------------------------
(* C18: the shape of a request *)

\* C18: every request written is a JSON object with an `id` member, with an
\* `args` member exactly when arguments were passed, behind a 4-byte big-endian
\* length that equals the number of bytes of the JSON text.
C18_RequestShape ==
    \A n \in 1..Len(qhist) : \A i \in 1..Len(qhist[n].events) :
        LET w == qhist[n].events[i]
        IN  w.ev = "write" =>
               /\ "id" \in w.keys
               /\ "args" \in w.keys <=> qhist[n].args # <<>>
               /\ w.content.prefix = BigEndian(Len(w.content.body), 4)

----------------------------------------------------------------------------
(* C19: one write before each read *)

\* C19: each read of a response comes directly after a write of a request to
\* the same file, a call reads at most once, and a read that failed is not
\* repeated.
C19_WriteBeforeRead ==
    /\ \A i \in 1..Len(io) :
          io[i].ev = "read" =>
             i > 1 /\ io[i - 1].ev = "write" /\ io[i - 1].file = io[i].file
    /\ \A n \in 1..Len(qhist) :
          Cardinality({i \in 1..Len(qhist[n].events) : qhist[n].events[i].ev = "read"}) <= 1

\* a read failed, and a later call wrote and read again
C19_Witness ==
    \E n, m \in 1..Len(qhist) :
        /\ n < m
        /\ HasRead(qhist[n]) /\ qhist[n].err # "none"
        /\ HasRead(qhist[m]) /\ qhist[m].err = "none"

----------------------------------------------------------------------------
(* C20: short replies *)

\* the mailbox holds less than a whole reply: fewer than 4 prefix bytes or
\* fewer body bytes than declared; without a prefix, no complete JSON text
Short(content) ==
    IF Framed(variant)
    THEN Len(content.prefix) < 4 \/ Len(content.body) < FromBigEndian(content.prefix)
    ELSE content.value.t = "invalid"

\* C20: a call that reads a short reply raises an error; it returns neither a
\* value nor None.
C20_ShortReplyIsFatal ==
    \A n \in 1..Len(qhist) : \A i \in 1..Len(qhist[n].events) :
        (qhist[n].events[i].ev = "read" /\ Short(qhist[n].events[i].content)) =>
            qhist[n].err # "none"

----------------------------------------------------------------------------
(* C21: a surface whose creation handshake failed *)

\* call n constructed a surface although the handshake returned no id
\* (None, or an empty value)
FailedHandshake(n) ==
    qhist[n].op = "new" /\ qhist[n].err = "none" /\ ~qhist[n].ret.truthy

\* the surface call n constructed: its index in canvases
CanvasOf(n) ==
    Cardinality({i \in 1..n : qhist[i].op = "new" /\ qhist[i].err = "none"})

\* C21: a surface whose handshake returned no id is disabled, and every later
\* operation on it writes nothing, reads nothing and raises nothing.
C21_DisabledIsSilent ==
    \A n \in 1..Len(qhist) :
        FailedHandshake(n) =>
            /\ ~canvases[CanvasOf(n)].enabled
            /\ \A m \in (n + 1)..Len(qhist) :
                  qhist[m].c = CanvasOf(n) =>
                      qhist[m].events = <<>> /\ qhist[m].err = "none"

----------------------------------------------------------------------------
(* Several surfaces: creation, two setters, remove, reset and commit *)

MaxSurfCalls == 4

\* self.commit(), as KarelCanvas.draw and Canvas.update call it: Context2D
\* defines no commit, so the attribute lookup raises AttributeError
commit_frame(k) ==
    Ends("commit", k, <<>>, Raised("AttributeError"), objs[k].cache)

\* a remove that hands the id back to the allocator
remove_releasing(k) ==
    LET d == __dispatch(stream, objs[k].id, EventType.remove, <<>>)
    IN  /\ stream' = d.file
        /\ hist' = Append(hist, Entry("remove", k, objs[k].id, <<>>, d.err, <<>>,
                                      <<Frame(EventType.remove, objs[k].id, <<>>)>>))
        /\ next_id' = objs[k].id
        /\ UNCHANGED <<objs, grads, qvars, tvars>>

\* Context2D.remove
remove(k) == PlainOp("remove", k)

\* Context2D.reset
reset(k) == PlainOp("reset", k)

\* the bytes written to the file object and not flushed: Context2D never calls
\* flush, and the streams explored stay far below the buffer of open(.., "wb")
Pending == stream

SurfMore == Len(hist) < MaxSurfCalls
SurfCreateArgs == {<<600, 300>>, <<601, 301>>}
SurfWidthArgs == {F(2), F(7)}
SurfDashArgs == {<<>>, <<5, 3>>}

SurfCreate ==
    SurfMore /\ \E a \in SurfCreateArgs : Context2D__init__("Context2D", a[1], a[2])
SurfSetLineWidth ==
    SurfMore /\ \E k \in Objects, v \in SurfWidthArgs : FloatSetter("line_width", k, v)
SurfSetLineDash ==
    SurfMore /\ \E k \in Objects, v \in SurfDashArgs : set_line_dash(k, v)
SurfRemove ==
    SurfMore /\ \E k \in Objects : remove(k)
SurfReset ==
    SurfMore /\ \E k \in Objects : reset(k)
SurfCommit ==
    SurfMore /\ \E k \in Objects : commit_frame(k)

NextSurf ==
    \/ SurfCreate
    \/ SurfSetLineWidth
    \/ SurfSetLineDash
    \/ SurfRemove
    \/ SurfReset
    \/ SurfCommit

SpecSurf == Init /\ [][NextSurf]_vars

----------------------------------------------------------------------------
(* C22: commit *)

\* C22: a call of commit returns without error after dispatching one commit
\* frame, and when it has returned no byte of the stream is left unflushed.
C22_CommitFlushes ==
    \A n \in 1..Len(hist) :
        hist[n].op = "commit" =>
            /\ hist[n].err = "none"
            /\ Len(hist[n].frames) = 1
            /\ n = Len(hist) => Pending = <<>>

----------------------------------------------------------------------------
(* C23: the reported size *)

\* the frames received for surface id that carry property p (a size): its
\* creation frame and its resize frames
SizeFrames(id, p) ==
    SelectSeq(Received,
              LAMBDA f : f.id = id /\ f.op \in {EventType.create, EventType[p]})

\* C23: the width and height a surface reports are integers and equal the
\* values carried by the last creation or resize frame sent for it.
C23_SizeIsLastSent ==
    \A k \in Objects : \A p \in SizeProps :
        LET sent == SizeFrames(objs[k].id, p)
        IN  /\ objs[k].cache[p] % 2 = 0
            /\ sent # <<>>
            /\ objs[k].cache[p] = Carried(p, sent[Len(sent)])

----------------------------------------------------------------------------
(* Removal near the id limit: surfaces are created up to the limit and past  *)
(* it, and from RemoveFrom surfaces on, the first or the last surface may be *)
(* removed, MaxRemoves times in all.                                         *)

MaxRemoves == 2
RemoveFrom == IdLimit - MaxOver

IsRemove(e) == e.op = "remove"
Removes == SelectSeq(hist, IsRemove)

RemCreate ==
    AllocMore /\ Context2D__init__("Context2D", 600, 300)
RemRemove ==
    /\ Len(Removes) < MaxRemoves
    /\ Len(objs) >= RemoveFrom
    /\ \E k \in {1, Len(objs)} : remove(k)

NextRemove ==
    \/ RemCreate
    \/ RemRemove

SpecRemove == Init /\ [][NextRemove]_vars

----------------------------------------------------------------------------
(* C24: remove *)

\* the creations that succeeded among the first n calls
CreatedBefore(n) ==
    Len(SelectSeq(SubSeq(hist, 1, n - 1), LAMBDA e : e.op = "create" /\ e.err = "none"))

\* C24: remove dispatches exactly one remove frame (opcode 1, no payload) for
\* its surface and leaves the allocator alone; no id is handed to two surfaces,
\* and once 256 surfaces have been created every creation fails, removals or not.
C24_RemoveKeepsId ==
    /\ [][LET e == hist'[Len(hist')]
          IN  (Len(hist') = Len(hist) + 1 /\ e.op = "remove") =>
                 /\ e.err = "none"
                 /\ stream' = stream \o <<0, 0, 0, 2, 1, e.id>>
                 /\ e.id = objs[e.obj].id
                 /\ next_id' = next_id
                 /\ objs' = objs]_vars
    /\ [](\A i, j \in 1..Len(objs) : objs[i].id = objs[j].id => i = j)
    /\ [](\A n \in 1..Len(hist) :
             (hist[n].op = "create" /\ CreatedBefore(n) >= IdLimit) =>
                 hist[n].err = "Exception" /\ hist[n].frames = <<>>)

\* 256 surfaces were created, two were removed, and a creation was attempted
C24_Witness ==
    /\ Len(objs) = IdLimit
    /\ Len(Removes) = MaxRemoves
    /\ LastCall.op = "create" /\ LastCall.err = "Exception"

----------------------------------------------------------------------------
(* C25: the warning *)

----------------------------------------------------------------------------
(* C26: a setter that raises *)

\* C26: when a property setter raises while encoding its value, it has written
\* no byte and the cache holds what it held before the call.
C26_FailedSetterChangesNothing ==
    [][LET e == hist'[Len(hist')]
       IN  (Len(hist') = Len(hist) + 1 /\ e.op \in Props /\ e.err # "none") =>
              stream' = stream /\ objs' = objs]_vars

----------------------------------------------------------------------------
(* C27: the renderer's drawing state *)

\* the drawing-state properties compared (the sizes are C23's matter; filter
\* has a default that cannot be encoded)
StatefulProps == Props \ (SizeProps \cup {"filter"})

\* the largest element of a non-empty set of numbers
Last(S) == CHOOSE i \in S : \A j \in S : j <= i

\* the encoded value a reference renderer holds for property p of surface id
\* after replaying the frames received: the payload of the last frame that set
\* p since the last reset frame of the surface, or the default
RendererValue(id, p) ==
    LET fs == SelectSeq(Received, LAMBDA f : f.id = id)
        resets == {i \in 1..Len(fs) : fs[i].op = EventType.reset}
        from == IF resets = {} THEN 0 ELSE Last(resets)
        sets == {i \in (from + 1)..Len(fs) : fs[i].op = EventType[p]}
    IN  IF sets = {} THEN Encoded(p, Defaults[p]).bytes ELSE fs[Last(sets)].payload

\* C27: for every surface and every stateful property the cached value,
\* encoded, is the value the reference renderer holds.
C27_ReplayEqualsCache ==
    \A k \in Objects : \A p \in StatefulProps :
        Encoded(p, objs[k].cache[p]).bytes = RendererValue(objs[k].id, p)

----------------------------------------------------------------------------
(* C28: cached values of mutable type *)

\* the contents of the style cached for property p of surface k, given the
\* surfaces and the gradients of a state: the string, or the gradient's fields
CachedStyle(os, gs, k, p) ==
    IF os[k].cache[p].t = "str" THEN os[k].cache[p] ELSE gs[os[k].cache[p].s[1]]

\* C28: add_color_stop changes the cached contents of no style property, and
\* assigning a gradient whose encoding differs from what the renderer holds
\* for the property dispatches a frame carrying that encoding.
C28_CacheIsSnapshot ==
    [][LET e == hist'[Len(hist')]
           called == Len(hist') = Len(hist) + 1
       IN  /\ (called /\ e.op = "add_color_stop") =>
                 \A k \in Objects : \A p \in StyleProps :
                     CachedStyle(objs', grads', k, p) = CachedStyle(objs, grads, k, p)
           /\ (/\ called /\ e.op \in StyleProps /\ e.arg.t = "CanvasGradient"
               /\ pack_style(e.arg).ok
               /\ pack_style(e.arg).bytes # RendererValue(e.id, e.op)) =>
                 stream' = stream \o BigEndian(Len(pack_style(e.arg).bytes) + 2, 4)
                                  \o <<EventType[e.op], e.id>> \o pack_style(e.arg).bytes
      ]_vars

----------------------------------------------------------------------------
(* C29: surfaces do not share state *)

\* the bytes of the frames a call dispatched
RECURSIVE Bytes(_)
Bytes(frames) ==
    IF frames = <<>> THEN <<>>
    ELSE BigEndian(Len(Head(frames).payload) + 2, 4)
         \o <<Head(frames).op, Head(frames).id>> \o Head(frames).payload
         \o Bytes(Tail(frames))

\* C29: a call on a surface writes only frames that carry that surface's id and
\* leaves the cache of every other surface as it was; a setter that returns
\* after a call with a value other than the one its own surface caches has
\* dispatched a frame, whatever the other surfaces hold.
C29_SurfacesIsolated ==
    [][LET e == hist'[Len(hist')]
           k == e.obj
       IN  Len(hist') = Len(hist) + 1 =>
              /\ stream' = stream \o Bytes(e.frames)
              /\ \A i \in 1..Len(e.frames) : e.frames[i].id = e.id
              /\ \A j \in Objects : j # k => objs'[j] = objs[j]
              /\ e.op # "create" => k \in Objects /\ e.id = objs[k].id /\ Len(objs') = Len(objs)
              /\ (e.op = "line_dash" /\ e.err = "none" /\ e.arg # objs[k].cache.line_dash) =>
                    Len(e.frames) = 1 /\ objs'[k].cache.line_dash = e.arg
              /\ (/\ e.op = "line_width" /\ e.err = "none"
                  /\ ~FloatEq(e.arg, objs[k].cache.line_width)) =>
                    Len(e.frames) = 1 /\ objs'[k].cache.line_width = e.arg
      ]_vars

\* two surfaces exist; the dash pattern [5, 3] was set on the first and then,
\* with a frame of its own, on the second
C29_Witness ==
    /\ Len(hist) = 4 /\ Len(objs) = 2
    /\ hist[3].op = "line_dash" /\ hist[3].obj = 1 /\ hist[3].arg = <<5, 3>>
    /\ hist[4].op = "line_dash" /\ hist[4].obj = 2 /\ hist[4].arg = <<5, 3>>
    /\ Len(hist[4].frames) = 1 /\ hist[4].frames[1].id = objs[2].id
    /\ objs[1].id # objs[2].id
    /\ objs[1].cache.line_dash = <<5, 3>> /\ objs[2].cache.line_dash = <<5, 3>>

----------------------------------------------------------------------------
(* Threads.  Several threads call Context2D; each public operation is made    *)
(* between acquiring and releasing a mutex the callers share.  Inside an      *)
(* operation every statement is a step of its own: the read of the id, the    *)
(* load and the store of `__next_id += 1`, and the four writes of __dispatch. *)

MaxThreads == 2
MaxThreadCalls == 4

Threads == 1..MaxThreads
ThreadOps == {"begin_path", "stroke"}

\* a thread outside any operation, with no call made
IdleThread ==
    [pc |-> "idle", calls |-> 0, op |-> "", id |-> 0, tmp |-> 0, parts |-> <<>>,
     mine |-> <<>>, issued |-> <<>>]

InitThreads ==
    /\ next_id = 0
    /\ stream = <<>>
    /\ objs = <<>>
    /\ hist = <<>>
    /\ grads = <<>>
    /\ variant = "context2d"
    /\ canvases = <<>>
    /\ io = <<>>
    /\ qhist = <<>>
    /\ printed = 0
    /\ lock = 0
    /\ threads = [t \in Threads |-> IdleThread]

RECURSIVE CallsUpTo(_)
\* the calls made by threads 1..t
CallsUpTo(t) == IF t = 0 THEN 0 ELSE threads[t].calls + CallsUpTo(t - 1)

\* the threads may make another call
ThreadMore == CallsUpTo(MaxThreads) < MaxThreadCalls

\* the writes of __dispatch with the id written before the event type
DispatchWrites_id_first(id, event_type, data) ==
    <<to_bytes(FrameLength(data), 4).bytes, to_bytes(id, 1).bytes,
      to_bytes(event_type, 1).bytes, data>>

\* the four writes of __dispatch, in order
DispatchWrites(id, event_type, data) ==
    <<to_bytes(FrameLength(data), 4).bytes, to_bytes(event_type, 1).bytes,
      to_bytes(id, 1).bytes, data>>

\* the caller takes the mutex before a public operation
Acquire(t) ==
    /\ threads[t].pc = "idle" /\ ThreadMore
    /\ lock = 0
    /\ lock' = t
    /\ threads' = [threads EXCEPT ![t].pc = "begin", ![t].calls = @ + 1]
    /\ UNCHANGED <<next_id, stream, objs, hist, grads, qvars>>

\* Context2D.__init__: self.__id = Context2D.__next_id
ThreadReadId(t) ==
    /\ threads[t].pc = "begin"
    /\ threads' = [threads EXCEPT ![t].pc = "load", ![t].op = "create",
                                  ![t].id = next_id,
                                  ![t].issued = Append(@, Frame(EventType.create, next_id,
                                                               <<1, 44, 0, 150>>))]
    /\ UNCHANGED <<next_id, stream, objs, hist, grads, qvars, lock>>

\* Context2D.__next_id += 1: the load
ThreadLoad(t) ==
    /\ threads[t].pc = "load"
    /\ threads' = [threads EXCEPT ![t].pc = "store", ![t].tmp = next_id]
    /\ UNCHANGED <<next_id, stream, objs, hist, grads, qvars, lock>>

\* Context2D.__next_id += 1: the store, followed by the limit check and the
\* encoding of the default size
ThreadStore(t) ==
    /\ threads[t].pc = "store"
    /\ next_id' = AllocateId(threads[t].tmp)
    /\ threads' = IF TooMany(threads[t].id)
                  THEN [threads EXCEPT ![t].pc = "release"]
                  ELSE [threads EXCEPT ![t].pc = "write",
                           ![t].parts = DispatchWrites(threads[t].id, EventType.create,
                                                       <<1, 44, 0, 150>>)]
    /\ UNCHANGED <<stream, objs, hist, grads, qvars, lock>>

\* begin_path() or stroke() on a surface the thread created
ThreadPlain(t) ==
    /\ threads[t].pc = "begin"
    /\ \E i \in 1..Len(threads[t].mine), op \in ThreadOps :
          LET id == objs[threads[t].mine[i]].id
          IN  threads' = [threads EXCEPT ![t].pc = "write", ![t].op = op, ![t].id = id,
                             ![t].parts = DispatchWrites(id, EventType[op], <<>>),
                             ![t].issued = Append(@, Frame(EventType[op], id, <<>>))]
    /\ UNCHANGED <<next_id, stream, objs, hist, grads, qvars, lock>>

\* one self.__file.write(..) of __dispatch
ThreadWrite(t) ==
    /\ threads[t].pc = "write"
    /\ stream' = write(stream, Head(threads[t].parts))
    /\ threads' = [threads EXCEPT ![t].parts = Tail(@),
                      ![t].pc = IF Len(threads[t].parts) = 1 THEN "assign" ELSE "write"]
    /\ UNCHANGED <<next_id, objs, hist, grads, qvars, lock>>

\* the statements after __dispatch: __init__ stores the size, the other
\* operations return
ThreadAssign(t) ==
    /\ threads[t].pc = "assign"
    /\ IF threads[t].op = "create"
       THEN /\ objs' = Append(objs, NewObject(threads[t].id, "Context2D", 600, 300))
            /\ threads' = [threads EXCEPT ![t].pc = "release",
                                          ![t].mine = Append(@, Len(objs) + 1)]
       ELSE /\ objs' = objs
            /\ threads' = [threads EXCEPT ![t].pc = "release"]
    /\ UNCHANGED <<next_id, stream, hist, grads, qvars, lock>>

\* the caller releases the mutex after the operation
Release(t) ==
    /\ threads[t].pc = "release"
    /\ lock' = 0
    /\ threads' = [threads EXCEPT ![t].pc = "idle"]
    /\ UNCHANGED <<next_id, stream, objs, hist, grads, qvars>>

NextThreads ==
    \E t \in Threads :
        \/ Acquire(t)
        \/ ThreadReadId(t)
        \/ ThreadLoad(t)
        \/ ThreadStore(t)
        \/ ThreadPlain(t)
        \/ ThreadWrite(t)
        \/ ThreadAssign(t)
        \/ Release(t)

SpecThreads == InitThreads /\ [][NextThreads]_vars

----------------------------------------------------------------------------
(* C30: threads under external mutual exclusion *)

\* no thread is inside an operation
Quiet == \A t \in Threads : threads[t].pc = "idle"

\* the ids of the surfaces thread t created
IdsOf(t) == {objs[threads[t].mine[i]].id : i \in 1..Len(threads[t].mine)}

\* the frames received that belong to thread t's surfaces, in stream order
FramesFor(t) == SelectSeq(Received, LAMBDA f : f.id \in IdsOf(t))

\* C30: with every public operation made under the callers' mutex, whenever no
\* operation is in progress the stream is a sequence of whole frames, the
\* frames of each thread appear in the order of that thread's calls, and no two
\* surfaces share an id.
C30_ExclusionSuffices ==
    /\ \A i, j \in Objects : objs[i].id = objs[j].id => i = j
    /\ Quiet =>
          /\ ParseFrames(stream).ok
          /\ \A t \in Threads : FramesFor(t) = threads[t].issued

\* both threads created a surface and drew on it, their calls alternating
C30_Witness ==
    /\ Quiet
    /\ \A t \in Threads : threads[t].calls = 2 /\ Len(threads[t].issued) = 2
    /\ Len(Received) = 4
    /\ Received[1].id # Received[2].id
    /\ Received[3].id = Received[2].id /\ Received[4].id = Received[1].id

----------------------------------------------------------------------------
(* C31: the creation request read back *)

\* call n is a construction whose read found the request it had written
EchoedHandshake(n) ==
    /\ qhist[n].op = "new"
    /\ Len(qhist[n].events) = 2
    /\ qhist[n].events[2].ev = "read"
    /\ qhist[n].events[2].content = qhist[n].events[1].content

\* C31: a construction that reads back its own request completes with the
\* surface disabled and the warning printed.
C31_EchoDisables ==
    \A n \in 1..Len(qhist) :
        EchoedHandshake(n) =>
            /\ qhist[n].err = "none"
            /\ CanvasOf(n) \in 1..Len(canvases)
            /\ ~canvases[CanvasOf(n)].enabled
            /\ printed >= 1

----------------------------------------------------------------------------
(* C32: after a failed exchange *)

\* call n read a reply that was missing or short
FailedExchange(n) ==
    \E i \in 1..Len(qhist[n].events) :
        qhist[n].events[i].ev = "read" /\ Short(qhist[n].events[i].content)

\* C32: once an exchange has failed, no later call writes a request or reads
\* a reply.
C32_FailureIsTerminal ==
    \A n \in 1..Len(qhist) :
        FailedExchange(n) => \A m \in (n + 1)..Len(qhist) : qhist[m].events = <<>>

----------------------------------------------------------------------------
(* C33: frames after remove *)

\* C33: no frame that follows a remove frame in the stream carries the id of
\* the removed surface.
C33_NoFrameAfterRemove ==
    \A i, j \in 1..Len(Received) :
        (i < j /\ Received[i].op = EventType.remove) => Received[j].id # Received[i].id

----------------------------------------------------------------------------
(* C34: HTMLCanvas setters and the mirror *)

\* C34 (the modules with a mirror of the properties): on an enabled surface
\* the width setter writes no request when the value is the one the mirror
\* holds, and writes one request when it differs.
C34_UnchangedValueSkipsWrite ==
    [][LET e == qhist'[Len(qhist')]
       IN  (/\ Len(qhist') = Len(qhist) + 1
            /\ e.op = "set_width"
            /\ HasEnabled(variant)
            /\ canvases[e.c].enabled) =>
              IF e.args[1] = canvases[e.c].width
              THEN e.events = <<>> /\ io' = io
              ELSE Len(e.events) >= 1 /\ e.events[1].ev = "write"]_vars

----------------------------------------------------------------------------
(* Gradients built independently: a program that creates two gradients (out  *)
(* of two linear ones that differ in one coordinate, a conic one and one     *)
(* with a negative coordinate), gives each at most one stop (at 0.5 or at    *)
(* NaN) and then assigns them to fill_style and stroke_style.                *)

MaxEqCalls == 7

EqGradientArgs ==
    {<<"linear", <<2, 4, 6, 8>>, F(0)>>, <<"linear", <<2, 4, 6, 10>>, F(0)>>,
     <<"conic", <<2, 4>>, F(1)>>, <<"linear", <<-2, 4, 6, 8>>, F(0)>>}
EqStopArgs == {<<F(1), S_red>>, <<NaN, S_red>>}
EqMore == Len(hist) < MaxEqCalls

EqCreate ==
    /\ EqMore /\ objs = <<>>
    /\ Context2D__init__("Context2D", Defaults.width, Defaults.height)
EqNew ==
    /\ EqMore /\ Len(grads) < MaxGradients /\ ~(\E n \in 1..Len(hist) : IsStyleCall(hist[n]))
    /\ \E k \in Objects, a \in EqGradientArgs : create_gradient(k, a[1], a[2], a[3])
EqAddStop ==
    /\ EqMore /\ ~(\E n \in 1..Len(hist) : IsStyleCall(hist[n]))
    /\ \E g \in Gradients : Len(grads[g].stops) < 1
                            /\ \E a \in EqStopArgs : add_color_stop(g, a[1], a[2])
EqSetStyle ==
    /\ EqMore /\ Len(grads) = MaxGradients
    /\ \E k \in Objects, g \in Gradients, p \in {"fill_style", "stroke_style"} :
          StyleSetter(p, k, GradientRef(g))

NextEqual ==
    \/ EqCreate
    \/ EqNew
    \/ EqAddStop
    \/ EqSetStyle

SpecEqual == Init /\ [][NextEqual]_vars

----------------------------------------------------------------------------
(* C35: equality of gradients *)

\* a stop of the gradient has the offset NaN
HasNaN(a) == \E i \in 1..Len(a.stops) : a.stops[i].offset.nan

\* C35 as stated: assigning a gradient that is another object than the cached
\* gradient dispatches no frame when kind, geometry and stops are the same,
\* and exactly one frame when they differ.
C35_StructuralEquality ==
    [][LET e == hist'[Len(hist')]
           old == objs[e.obj].cache[e.op]
       IN  (/\ Len(hist') = Len(hist) + 1
            /\ IsStyleCall(e) /\ e.arg.t = "CanvasGradient"
            /\ old.t = "CanvasGradient" /\ old.s # e.arg.s) =>
              IF grads[e.arg.s[1]] = grads[old.s[1]]
              THEN e.err = "none" /\ stream' = stream
              ELSE e.err = "none" /\ stream' = stream \o Bytes(e.frames)
                   /\ Len(e.frames) = 1]_vars

\* C35, amended: no frame when kind, geometry and stops are the same and no
\* offset is NaN; when they differ, exactly one frame with the encoding of the
\* assigned gradient if it can be encoded, and an error and no frame if it
\* cannot. (Same fields with a NaN offset: equal only when the two lists hold
\* the same float object, which the statement leaves open.)
C35_EqualityThenEncoding ==
    [][LET e == hist'[Len(hist')]
           old == objs[e.obj].cache[e.op]
           enc == pack_style(e.arg)
       IN  (/\ Len(hist') = Len(hist) + 1
            /\ IsStyleCall(e) /\ e.arg.t = "CanvasGradient"
            /\ old.t = "CanvasGradient" /\ old.s # e.arg.s) =>
              IF grads[e.arg.s[1]] = grads[old.s[1]] /\ ~HasNaN(grads[e.arg.s[1]])
              THEN e.err = "none" /\ stream' = stream /\ objs' = objs
              ELSE IF grads[e.arg.s[1]] = grads[old.s[1]]
              THEN TRUE
              ELSE IF enc.ok
              THEN /\ e.err = "none"
                   /\ stream' = stream \o BigEndian(Len(enc.bytes) + 2, 4)
                                       \o <<EventType[e.op], e.id>> \o enc.bytes
                   /\ objs'[e.obj].cache[e.op] = e.arg
              ELSE e.err # "none" /\ stream' = stream /\ objs' = objs]_vars

\* two gradients with the same fields, each with a stop at 0.5, were assigned
\* one after the other, and only the first assignment dispatched
C35_Witness ==
    /\ Len(hist) = 7 /\ Len(grads) = 2
    /\ grads[1] = grads[2] /\ Len(grads[1].stops) = 1 /\ ~HasNaN(grads[1])
    /\ hist[6].op = "fill_style" /\ hist[6].arg = GradientRef(1) /\ hist[6].err = "none"
    /\ Len(hist[6].frames) = 1
    /\ hist[7].op = "fill_style" /\ hist[7].arg = GradientRef(2) /\ hist[7].err = "none"
    /\ hist[7].frames = <<>>
    /\ Len(Received) = 2

----------------------------------------------------------------------------
(* round_rect. The radii argument is a float, an int or a list of numbers;   *)
(* numbers are given in halves.                                              *)

MaxRoundCalls == 3

FloatRadius(h) == [t |-> "float", v |-> <<h>>]
IntRadius(n) == [t |-> "int", v |-> <<2 * n>>]
RadiusList(hs) == [t |-> "list", v |-> hs]

\* if isinstance(radii, float): radii = [radii]; len(radii) of an int raises;
\* more than 4 radii raise; then the four coordinates, the count byte and
\* the radii are encoded and dispatched
round_rect(k, cs, radii) ==
    LET data == Cat(pack_coords(cs), Cat(to_bytes(Len(radii.v), 1), pack_coords(radii.v)))
    IN  IF radii.t = "int"
        THEN Ends("round_rect", k, <<cs, radii>>, Raised("TypeError"), objs[k].cache)
        ELSE IF Len(radii.v) > 4
        THEN Ends("round_rect", k, <<cs, radii>>, Raised("ValueError"), objs[k].cache)
        ELSE IF data.ok
        THEN Dispatches("round_rect", k, <<cs, radii>>, data.bytes, objs[k].cache)
        ELSE Ends("round_rect", k, <<cs, radii>>, data, objs[k].cache)

\* rectangles 20 x 10 at (0, 0) and at (-1, 0)
RoundCoordArgs == {<<0, 0, 40, 20>>, <<-2, 0, 40, 20>>}
\* 5.0, 5, [], [2.5], [1, 2, 3, 4], [1, 2, 3, 4, 5], [-1]
RadiiArgs ==
    {FloatRadius(10), IntRadius(5), RadiusList(<<>>), RadiusList(<<5>>),
     RadiusList(<<2, 4, 6, 8>>), RadiusList(<<2, 4, 6, 8, 10>>), RadiusList(<<-2>>)}

RoundMore == Len(hist) < MaxRoundCalls

RoundCreate ==
    /\ RoundMore /\ objs = <<>>
    /\ Context2D__init__("Context2D", Defaults.width, Defaults.height)
RoundRect ==
    /\ RoundMore
    /\ \E k \in Objects, cs \in RoundCoordArgs, radii \in RadiiArgs : round_rect(k, cs, radii)

NextRound ==
    \/ RoundCreate
    \/ RoundRect

SpecRound == Init /\ [][NextRound]_vars

----------------------------------------------------------------------------
(* C36: the number of radii of round_rect *)

\* C36: round_rect with more than 4 radii raises and writes no frame; with 0
\* to 4 radii it writes exactly one frame with opcode 41 whose count byte is
\* the number of 2-byte radii after it.
C36_RadiiCount ==
    \A n \in 1..Len(hist) :
        LET e == hist[n] IN
        e.op = "round_rect" =>
            IF Len(e.arg[2].v) > 4
            THEN e.err # "none" /\ e.frames = <<>>
            ELSE /\ e.err = "none"
                 /\ Len(e.frames) = 1
                 /\ e.frames[1].op = 41
                 /\ Len(e.frames[1].payload) = 9 + 2 * e.frames[1].payload[9]
                 /\ e.frames[1].payload[9] = Len(e.arg[2].v)

----------------------------------------------------------------------------
(* C37: one opcode for each operation *)

\* the calls that wrote a frame, in call order
Sent == SelectSeq(hist, LAMBDA e : e.err = "none" /\ e.frames # <<>>)

\* C37: every operation dispatches under one fixed opcode and no two
\* operations share one: two frames in the stream carry the same opcode
\* exactly when the calls that wrote them are calls of the same operation.
C37_OpcodeIdentifiesOperation ==
    /\ \A a, b \in DOMAIN EventType : EventType[a] = EventType[b] => a = b
    /\ Len(Received) = Len(Sent)
    /\ \A i, j \in 1..Len(Sent) :
          (Received[i].op = Received[j].op) <=> (Sent[i].op = Sent[j].op)

\* the stream holds two frames of one operation and a frame of another
C37_Witness ==
    /\ Len(Received) = 3 /\ Len(Sent) = 3
    /\ \E i, j, k \in 1..3 :
          /\ i < j /\ Sent[i].op = Sent[j].op /\ Received[i].op = Received[j].op
          /\ Sent[k].op # Sent[i].op /\ Received[k].op # Received[i].op
          /\ Received[k].op = EventType[Sent[k].op]

====
